---- MODULE Spec2Model ----
(***************************************************************************)
(* Pane layout engine of notelet (EditorManager, src/scripts/theme.js,     *)
(* the class starting at line 2336).                                       *)
(*                                                                         *)
(* Representation.                                                         *)
(*  - A pane-tree node is a record: [type |-> "leaf", id |-> n] or         *)
(*    [type |-> "split", dir, children, sizes]; the JavaScript null tree   *)
(*    is [type |-> "null"].  Pane ids are naturals, 0 is null/undefined.   *)
(*  - The JavaScript tree is a graph of objects that is always a tree (no  *)
(*    node is shared), so a node object is identified by its path from the *)
(*    root: the sequence of child indices, 1-based.                        *)
(*  - A size is a fraction <<num, den>>.                                   *)
(*  - A pane element is identified by its dataset.paneId: the code keeps   *)
(*    one element per id in paneDom, and deletes an entry only when no    *)
(*    unit refers to the element and it is detached from the container.   *)
(*  - A method of EditorManager is an operator from the object's state (a  *)
(*    record of its fields, see This) to the state after the call; the     *)
(*    field ret carries the return value, layouts counts the runs of       *)
(*    layoutPanes and persists the calls of persistPage in the handler.    *)
(***************************************************************************)
EXTENDS Integers, Sequences, FiniteSets, TLC

VARIABLES
    paneTree,             \* this.paneTree
    activePaneId,         \* this.activePaneId
    editors,              \* this.editors: sequence of unit ids, in tab order
    edPane,               \* unit id -> pane id of ed.__pane (all units ever created)
    sessionId,            \* unit id -> ed.__sessionId
    activeEditor,         \* this.activeEditor, 0 is null
    draggedEditor,        \* this.draggedEditor, 0 is null
    dragAnchorEditor,     \* this.dragAnchorEditor, 0 is null
    containerDropHint,    \* this.containerDropHint and the container's drop-<dir> class
    lastContainerHint,    \* this.lastContainerHint
    paneHints,            \* [pane, dir]: pane elements with a drop-<dir> class and __lastDropDir
    tabDropTarget,        \* this.tabDropTarget
    paneDom,              \* keys of this.paneDom
    containerPanes,       \* pane elements attached below this.container
    hiddenPanes,          \* pane elements carrying the class 'hidden'
    hiddenHosts,          \* units whose host element (ed.__host) carries the class 'hidden'
    desktopLayoutBackup,  \* this.desktopLayoutBackup
    isMobileCollapsed,    \* this.isMobileCollapsed
    mobile,               \* isMobile(): window.innerWidth <= 768
    nextPaneId,           \* number of pane ids handed out by createPaneId, plus 1
    nextEditorId,         \* number of units created, plus 1
    snapshotTree,         \* layout.tree of the snapshot being restored
    scope,                \* the numbers of units and of pane ids a run may create
    closeRequest,         \* the tab-close click that awaits askConfirm: its unit
    resizer,              \* the resizer whose move and up listeners are on the document
    sessionStore,         \* the calls of sessionStore.put under way, and the last record put
    dropEvent,            \* the drag event getDropDirection was last asked about
    hist                  \* the last operation and its arguments

engine == <<paneTree, activePaneId, editors, edPane, sessionId, activeEditor, draggedEditor,
            dragAnchorEditor, containerDropHint, lastContainerHint, paneHints,
            tabDropTarget, paneDom, containerPanes, hiddenPanes, hiddenHosts,
            desktopLayoutBackup, isMobileCollapsed, mobile, nextPaneId, nextEditorId>>

vars == <<engine, snapshotTree, scope, closeRequest, resizer, sessionStore, dropEvent, hist>>

(* ------------------------------ bounds --------------------------------- *)
MaxPaneIds == 3

\* calls of sessionStore.put under way at a time
MaxPending == 2

MaxRawKids == 3

MaxRawLeaves == 2

(* ------------------------------ nodes ---------------------------------- *)
NullTree == [type |-> "null"]

Leaf(id) == [type |-> "leaf", id |-> id]

Half == <<1, 2>>

SplitNode(dir, first, second) ==
    [type |-> "split", dir |-> dir, children |-> <<first, second>>, sizes |-> <<Half, Half>>]

Directions == {"left", "right", "top", "bottom"}

RemoveAt(seq, i) == SubSeq(seq, 1, i - 1) \o SubSeq(seq, i + 1, Len(seq))

Front(seq) == SubSeq(seq, 1, Len(seq) - 1)

Last(seq) == seq[Len(seq)]

RECURSIVE NodeAt(_, _)
NodeAt(node, path) ==
    IF path = <<>> THEN node ELSE NodeAt(node.children[Head(path)], Tail(path))

RECURSIVE ReplaceAt(_, _, _)
ReplaceAt(node, path, next) ==
    IF path = <<>> THEN next
    ELSE [node EXCEPT !.children[Head(path)] =
              ReplaceAt(node.children[Head(path)], Tail(path), next)]

(* ---------------------------- the object ------------------------------- *)
NoBackup == [set |-> FALSE]

\* a null direction
NoDir == "none"

\* this.tabDropTarget = null
NoTarget == [set |-> FALSE]

\* no tab-close click awaits its confirmation; pane is the pane of the unit
\* when its close button was clicked
NoRequest == [ed |-> 0, pane |-> 0]

\* getDropDirection has not been asked
NoEvent == [hasRect |-> FALSE, left |-> 0, top |-> 0, width |-> 0, height |-> 0,
            clientX |-> 0, clientY |-> 0, direction |-> "none"]

\* no call of sessionStore.put is under way and no record has been put
NoStore == [pending |-> <<>>, written |-> <<>>]

\* no resizer is being dragged: the closure variables of makeResizerFlexible
\* (the split node by its path, idx, startX or startY, prevStart, nextStart),
\* and the extents the last pointer-move computed
NoResizer ==
    [on |-> FALSE, path |-> <<>>, idx |-> 0, start |-> 0, prevStart |-> 0, nextStart |-> 0,
     moved |-> FALSE, newPrev |-> 0, newNext |-> 0]

This ==
    [paneTree |-> paneTree, activePaneId |-> activePaneId, editors |-> editors,
     edPane |-> edPane, sessionId |-> sessionId,
     activeEditor |-> activeEditor, draggedEditor |-> draggedEditor,
     dragAnchorEditor |-> dragAnchorEditor, containerDropHint |-> containerDropHint,
     lastContainerHint |-> lastContainerHint, paneHints |-> paneHints,
     tabDropTarget |-> tabDropTarget, paneDom |-> paneDom,
     containerPanes |-> containerPanes, hiddenPanes |-> hiddenPanes,
     hiddenHosts |-> hiddenHosts,
     desktopLayoutBackup |-> desktopLayoutBackup, isMobileCollapsed |-> isMobileCollapsed,
     mobile |-> mobile, nextPaneId |-> nextPaneId, nextEditorId |-> nextEditorId,
     layouts |-> 0, persists |-> 0, ret |-> 0]

Commit(s) ==
    /\ paneTree' = s.paneTree
    /\ activePaneId' = s.activePaneId
    /\ editors' = s.editors
    /\ edPane' = s.edPane
    /\ sessionId' = s.sessionId
    /\ activeEditor' = s.activeEditor
    /\ draggedEditor' = s.draggedEditor
    /\ dragAnchorEditor' = s.dragAnchorEditor
    /\ containerDropHint' = s.containerDropHint
    /\ lastContainerHint' = s.lastContainerHint
    /\ paneHints' = s.paneHints
    /\ tabDropTarget' = s.tabDropTarget
    /\ paneDom' = s.paneDom
    /\ containerPanes' = s.containerPanes
    /\ hiddenPanes' = s.hiddenPanes
    /\ hiddenHosts' = s.hiddenHosts
    /\ desktopLayoutBackup' = s.desktopLayoutBackup
    /\ isMobileCollapsed' = s.isMobileCollapsed
    /\ mobile' = s.mobile
    /\ nextPaneId' = s.nextPaneId
    /\ nextEditorId' = s.nextEditorId

(* the fields as the constructor assigns them, before bindControls *)
Blank(m) ==
    [paneTree |-> NullTree, activePaneId |-> 0, editors |-> <<>>, edPane |-> <<>>,
     sessionId |-> <<>>, activeEditor |-> 0, draggedEditor |-> 0, dragAnchorEditor |-> 0,
     containerDropHint |-> NoDir, lastContainerHint |-> NoDir, paneHints |-> {},
     tabDropTarget |-> NoTarget, paneDom |-> {},
     containerPanes |-> {}, hiddenPanes |-> {}, hiddenHosts |-> {},
     desktopLayoutBackup |-> NoBackup,
     isMobileCollapsed |-> FALSE, mobile |-> m, nextPaneId |-> 1, nextEditorId |-> 1,
     layouts |-> 0, persists |-> 0, ret |-> 0]

StateIs(s) ==
    /\ paneTree = s.paneTree
    /\ activePaneId = s.activePaneId
    /\ editors = s.editors
    /\ edPane = s.edPane
    /\ sessionId = s.sessionId
    /\ activeEditor = s.activeEditor
    /\ draggedEditor = s.draggedEditor
    /\ dragAnchorEditor = s.dragAnchorEditor
    /\ containerDropHint = s.containerDropHint
    /\ lastContainerHint = s.lastContainerHint
    /\ paneHints = s.paneHints
    /\ tabDropTarget = s.tabDropTarget
    /\ paneDom = s.paneDom
    /\ containerPanes = s.containerPanes
    /\ hiddenPanes = s.hiddenPanes
    /\ hiddenHosts = s.hiddenHosts
    /\ desktopLayoutBackup = s.desktopLayoutBackup
    /\ isMobileCollapsed = s.isMobileCollapsed
    /\ mobile = s.mobile
    /\ nextPaneId = s.nextPaneId
    /\ nextEditorId = s.nextEditorId

(* With(x, F) is "const v = x; F(v)": a method's local binding.            *)
With(x, F(_)) == F(x)

(* createPaneId: a time stamp and three random hex digits; modelled as an  *)
(* id that has not been handed out before.                                 *)
createPaneId_stale(s) == [s EXCEPT !.ret = 1, !.nextPaneId = s.nextPaneId + 1]

createPaneId(s) == [s EXCEPT !.ret = s.nextPaneId, !.nextPaneId = s.nextPaneId + 1]

RECURSIVE getFirstLeaf(_)
RECURSIVE getFirstLeafIn(_, _)
getFirstLeaf(node) ==
    IF node.type = "leaf" THEN node
    ELSE IF node.type = "split" THEN getFirstLeafIn(node.children, 1)
    ELSE NullTree

getFirstLeafIn(kids, i) ==
    IF i > Len(kids) THEN NullTree
    ELSE LET found == getFirstLeaf(kids[i])
         IN IF found.type # "null" THEN found ELSE getFirstLeafIn(kids, i + 1)

IdOf(node) == IF node.type = "leaf" THEN node.id ELSE 0

NotFound == [found |-> FALSE, path |-> <<>>]

RECURSIVE findLeaf(_, _)
RECURSIVE findLeafIn(_, _, _)
findLeaf(node, paneId) ==
    IF node.type = "leaf" /\ node.id = paneId THEN [found |-> TRUE, path |-> <<>>]
    ELSE IF node.type = "split" THEN findLeafIn(node.children, paneId, 1)
    ELSE NotFound

findLeafIn(kids, paneId, i) ==
    IF i > Len(kids) THEN NotFound
    ELSE LET found == findLeaf(kids[i], paneId)
         IN IF found.found THEN [found |-> TRUE, path |-> <<i>> \o found.path]
            ELSE findLeafIn(kids, paneId, i + 1)

findNodeParent_none(targetPath) == [found |-> FALSE, parent |-> <<>>, index |-> 0]

(* findNodeParent(root, target): target is the node object at targetPath.  *)
findNodeParent(targetPath) ==
    IF targetPath = <<>> THEN [found |-> FALSE, parent |-> <<>>, index |-> 0]
    ELSE [found |-> TRUE, parent |-> Front(targetPath), index |-> Last(targetPath)]

ensureTree_keepActive(s) ==
    IF s.paneTree.type = "null"
    THEN LET c == createPaneId(s) IN [c EXCEPT !.paneTree = Leaf(c.ret), !.ret = 0]
    ELSE [s EXCEPT !.ret = 0]

ensureTree(s) ==
    With(IF s.paneTree.type = "null"
         THEN With(createPaneId(s), LAMBDA c :
                  [c EXCEPT !.paneTree = Leaf(c.ret), !.activePaneId = c.ret])
         ELSE s, LAMBDA s1 :
    [s1 EXCEPT !.activePaneId = IF @ = 0 THEN IdOf(getFirstLeaf(s1.paneTree)) ELSE @,
               !.ret = 0])

removeLeaf_loneFirst(s, paneId) ==
    LET info == findLeaf(s.paneTree, paneId)
    IN IF s.paneTree.type = "null" \/ ~info.found THEN s
       ELSE IF info.path = <<>> THEN [s EXCEPT !.paneTree = NullTree]
       ELSE LET parentPath == Front(info.path)
                parent == NodeAt(s.paneTree, parentPath)
            IN [s EXCEPT !.paneTree = ReplaceAt(s.paneTree, parentPath, parent.children[1])]

removeLeaf_keepLone(s, paneId) ==
    LET info == findLeaf(s.paneTree, paneId)
    IN IF s.paneTree.type = "null" \/ ~info.found THEN s
       ELSE IF info.path = <<>> THEN [s EXCEPT !.paneTree = NullTree]
       ELSE LET parentPath == Front(info.path)
                parent == NodeAt(s.paneTree, parentPath)
                spliced == [parent EXCEPT !.children = RemoveAt(@, Last(info.path))]
            IN [s EXCEPT !.paneTree = ReplaceAt(s.paneTree, parentPath, spliced)]

removeLeaf(s, paneId) ==
    LET info == findLeaf(s.paneTree, paneId)
    IN IF s.paneTree.type = "null" THEN [s EXCEPT !.ret = 0]
       ELSE IF ~info.found THEN [s EXCEPT !.ret = 0]
       ELSE IF info.path = <<>> THEN [s EXCEPT !.paneTree = NullTree, !.ret = 0]
       ELSE LET parentPath == Front(info.path)
                index == Last(info.path)
                parent == NodeAt(s.paneTree, parentPath)
                spliced == [parent EXCEPT !.children = RemoveAt(@, index)]
                upper == findNodeParent(parentPath)
                tree == IF Len(spliced.children) = 1
                        THEN IF ~upper.found THEN spliced.children[1]
                             ELSE ReplaceAt(s.paneTree, upper.parent \o <<upper.index>>,
                                            spliced.children[1])
                        ELSE ReplaceAt(s.paneTree, parentPath, spliced)
            IN [s EXCEPT !.paneTree = tree, !.ret = 0]

splitPane_absent(s, paneId, direction, newPaneId) ==
    LET e == ensureTree(s)
        info == findLeaf(e.paneTree, paneId)
    IN IF ~info.found THEN [e EXCEPT !.ret = e.nextPaneId]
       ELSE LET node == NodeAt(e.paneTree, info.path)
                dir == IF direction \in {"left", "right"} THEN "col" ELSE "row"
                c == IF newPaneId # 0 THEN [e EXCEPT !.ret = newPaneId] ELSE createPaneId(e)
                first == IF direction \in {"left", "top"} THEN Leaf(c.ret) ELSE node
                second == IF direction \in {"left", "top"} THEN node ELSE Leaf(c.ret)
            IN [c EXCEPT !.paneTree = ReplaceAt(e.paneTree, info.path, SplitNode(dir, first, second))]

splitPane_swapped(s, paneId, direction, newPaneId) ==
    LET e == ensureTree(s)
        info == findLeaf(e.paneTree, paneId)
    IN IF ~info.found THEN [e EXCEPT !.ret = 0]
       ELSE LET node == NodeAt(e.paneTree, info.path)
                dir == IF direction \in {"left", "right"} THEN "col" ELSE "row"
                c == IF newPaneId # 0 THEN [e EXCEPT !.ret = newPaneId] ELSE createPaneId(e)
                splitNode == SplitNode(dir, node, Leaf(c.ret))
            IN [c EXCEPT !.paneTree = ReplaceAt(e.paneTree, info.path, splitNode)]

splitPane(s, paneId, direction, newPaneId) ==
    With(ensureTree(s), LAMBDA e :
    With(findLeaf(e.paneTree, paneId), LAMBDA info :
    IF ~info.found THEN [e EXCEPT !.ret = 0]
    ELSE With(IF newPaneId # 0 THEN [e EXCEPT !.ret = newPaneId] ELSE createPaneId(e),
              LAMBDA c :
         LET node == NodeAt(e.paneTree, info.path)
             dir == IF direction \in {"left", "right"} THEN "col" ELSE "row"
             freshId == c.ret
             first == IF direction \in {"left", "top"} THEN Leaf(freshId) ELSE node
             second == IF direction \in {"left", "top"} THEN node ELSE Leaf(freshId)
             splitNode == SplitNode(dir, first, second)
         IN [c EXCEPT !.paneTree = ReplaceAt(e.paneTree, info.path, splitNode),
                      !.ret = freshId])))

IsNode(node) == node.type # "null"

\* an array element that was never assigned
Undefined == <<0, 0>>

\* the null of JSON
JsonNull == <<>>

Max(a, b) == IF a >= b THEN a ELSE b

Min(a, b) == IF a <= b THEN a ELSE b

RECURSIVE Gcd(_, _)
Gcd(a, b) == IF b = 0 THEN a ELSE Gcd(b, a % b)

(* A number is a pair <<n, d>>, d > 0, for the quotient n / d, kept in     *)
(* lowest terms: equal quotients are the same number.                      *)
Ratio(n, d) == <<n \div Gcd(n, d), d \div Gcd(n, d)>>

\* JSON.stringify that writes null for every number
JsonNumber_null(x) == JsonNull

(* JSON.stringify writes a finite number as the shortest decimal that      *)
(* reads back as the same number, and writes null for NaN and for an       *)
(* array element never assigned.                                           *)
JsonNumber(x) ==
    IF x = JsonNull \/ x[2] = 0 THEN JsonNull ELSE Ratio(x[1], x[2])

(* cloneTree: JSON.parse(JSON.stringify(node)), a copy with the same       *)
(* properties, each array copied element by element                       *)
RECURSIVE cloneTree(_)
cloneTree(node) ==
    [f \in DOMAIN node |->
        IF f = "children"
        THEN [i \in 1..Len(node.children) |-> cloneTree(node.children[i])]
        ELSE IF f = "sizes"
        THEN [i \in 1..Len(node.sizes) |-> JsonNumber(node.sizes[i])]
        ELSE node[f]]

Uniform(n) == [i \in 1..(IF n > 1 THEN n ELSE 1) |-> <<1, IF n > 1 THEN n ELSE 1>>]

(* A deserialized node is a record that may lack dir, children or sizes;   *)
(* a node of any other type than leaf or split is [type |-> "junk"].       *)
RECURSIVE normalizeTree(_)
normalizeTree(node) ==
    IF node.type = "null" THEN NullTree
    ELSE IF node.type = "leaf" THEN node
    ELSE IF node.type = "split"
    THEN LET dir == IF "dir" \in DOMAIN node /\ node.dir \in {"row", "col"}
                    THEN node.dir ELSE "row"
             kids == IF "children" \in DOMAIN node THEN node.children ELSE <<>>
             children == SelectSeq([i \in 1..Len(kids) |-> normalizeTree(kids[i])], IsNode)
             sizes == IF "sizes" \in DOMAIN node /\ Len(node.sizes) = Len(children)
                      THEN node.sizes ELSE Uniform(Len(children))
         IN [type |-> "split", dir |-> dir, children |-> children, sizes |-> sizes]
    ELSE NullTree

(* --------------------------- tree queries ------------------------------ *)
RECURSIVE LeafIds(_)
RECURSIVE LeafIdsIn(_, _)
LeafIds(node) ==
    IF node.type = "leaf" THEN <<node.id>>
    ELSE IF node.type = "split" THEN LeafIdsIn(node.children, 1)
    ELSE <<>>

LeafIdsIn(kids, i) ==
    IF i > Len(kids) THEN <<>> ELSE LeafIds(kids[i]) \o LeafIdsIn(kids, i + 1)

LeafSet(node) == {LeafIds(node)[i] : i \in 1..Len(LeafIds(node))}

RECURSIVE AllPaths(_)
AllPaths(node) ==
    IF node.type = "split"
    THEN {<<>>} \cup UNION {{<<i>> \o p : p \in AllPaths(node.children[i])} :
                              i \in 1..Len(node.children)}
    ELSE {<<>>}

RECURSIVE SplitPaths(_)
SplitPaths(node) ==
    IF node.type = "split"
    THEN {<<>>} \cup UNION {{<<i>> \o p : p \in SplitPaths(node.children[i])} :
                              i \in 1..Len(node.children)}
    ELSE {}

(* ------------------- tree operations called directly ------------------- *)
Record(op, arg, dir, s) ==
    [op |-> op, arg |-> arg, dir |-> dir, ret |-> s.ret,
     pre |-> paneTree, preActive |-> activePaneId, preNext |-> nextPaneId,
     prev |-> [op |-> hist.op, ret |-> hist.ret,
               pre |-> IF hist.op = "splitPane" THEN hist.pre ELSE NullTree]]

\* the tree operations are bounded by MaxPaneIds alone
NoScope == [editors |-> 0, panes |-> 0]

NoHist ==
    [op |-> "init", arg |-> 0, dir |-> "none", ret |-> 0,
     pre |-> NullTree, preActive |-> 0, preNext |-> 1,
     prev |-> [op |-> "init", ret |-> 0, pre |-> NullTree]]

(* Ids a caller can hold: null (0), every id handed out so far, whether it *)
(* is still in the tree or not, and the ids of a restored tree.            *)
KnownPaneIds == (0..(nextPaneId - 1)) \cup LeafSet(paneTree)

EnsureTree ==
    LET s == ensureTree(This)
    IN /\ s.nextPaneId <= MaxPaneIds + 1
       /\ Commit(s)
       /\ hist' = Record("ensureTree", 0, "none", s)
       /\ UNCHANGED <<snapshotTree, scope, closeRequest, resizer, sessionStore, dropEvent>>

SplitPane ==
    \E paneId \in KnownPaneIds, direction \in Directions :
        LET s == splitPane(This, paneId, direction, 0)
        IN /\ s.nextPaneId <= MaxPaneIds + 1
           /\ Commit(s)
           /\ hist' = Record("splitPane", paneId, direction, s)
           /\ UNCHANGED <<snapshotTree, scope, closeRequest, resizer, sessionStore, dropEvent>>

RemoveLeaf ==
    \E paneId \in KnownPaneIds :
        LET s == removeLeaf(This, paneId)
        IN /\ Commit(s)
           /\ hist' = Record("removeLeaf", paneId, "none", s)
           /\ UNCHANGED <<snapshotTree, scope, closeRequest, resizer, sessionStore, dropEvent>>

TreeInit ==
    /\ StateIs(Blank(FALSE))
    /\ snapshotTree = NullTree
    /\ scope = NoScope
    /\ closeRequest = NoRequest
    /\ resizer = NoResizer
    /\ sessionStore = NoStore
    /\ dropEvent = NoEvent
    /\ hist = NoHist

TreeNext == EnsureTree \/ SplitPane \/ RemoveLeaf

SpecTree == TreeInit /\ [][TreeNext]_vars

(* ------------- restoring a deserialized tree (applySnapshot) ----------- *)
Junk == [type |-> "junk"]

RawSeqs(S, n) == UNION {[1..k -> S] : k \in 0..n}

RawLeaves == {Leaf(i) : i \in 1..MaxRawLeaves} \cup {Junk}

RawDirs == {"col", "column"}

(* a sizes array of 0..MaxRawKids weights *)
RawSizes == {[i \in 1..k |-> <<1, 4>>] : k \in 0..MaxRawKids}

(* nested splits: k leaves with ids of their own, direction and sizes absent *)
RawInner ==
    {[type |-> "split",
      children |-> [i \in 1..k |-> Leaf(MaxRawLeaves + i)]] : k \in 0..MaxRawLeaves}

RawTrees ==
    RawLeaves
    \cup {[type |-> "split", dir |-> d, children |-> c] :
             d \in RawDirs, c \in RawSeqs(RawLeaves \cup RawInner, MaxRawKids)}
    \cup {[type |-> "split", dir |-> d, children |-> c, sizes |-> z] :
             d \in RawDirs, c \in RawSeqs(RawLeaves \cup RawInner, MaxRawKids),
             z \in RawSizes}

NormalizeTree ==
    /\ snapshotTree.type # "null"
    /\ Commit([This EXCEPT !.paneTree = normalizeTree(snapshotTree)])
    /\ hist' = Record("normalizeTree", 0, "none", This)
    /\ UNCHANGED <<snapshotTree, scope, closeRequest, resizer, sessionStore, dropEvent>>

NormInit ==
    /\ StateIs(Blank(FALSE))
    /\ snapshotTree \in RawTrees
    /\ scope = NoScope
    /\ closeRequest = NoRequest
    /\ resizer = NoResizer
    /\ sessionStore = NoStore
    /\ dropEvent = NoEvent
    /\ hist = NoHist

NormNext == NormalizeTree \/ RemoveLeaf

SpecNorm == NormInit /\ [][NormNext]_vars

(* ------------------------- getDropDirection ---------------------------- *)
(* numbers as pairs <<n, d>> with d > 0 *)
Less(a, b) == a[1] * b[2] < b[1] * a[2]

Quarter == <<1, 4>>

ThreeQuarters == <<3, 4>>

\* getDropDirection with the boundaries in the outer bands
getDropDirection_outer(event, rect) ==
    IF ~rect.hasRect THEN "center"
    ELSE LET ratio == <<event.clientX - rect.left, Max(rect.width, 1)>>
             vr == <<event.clientY - rect.top, Max(rect.height, 1)>>
         IN IF ~Less(Quarter, ratio) THEN "left"
            ELSE IF ~Less(ratio, ThreeQuarters) THEN "right"
            ELSE IF ~Less(Quarter, vr) THEN "top"
            ELSE IF ~Less(vr, ThreeQuarters) THEN "bottom"
            ELSE "center"

(* getDropDirection(event, element): rect is the rectangle of the element, *)
(* hasRect FALSE when there is no element to ask                           *)
getDropDirection(event, rect) ==
    IF ~rect.hasRect THEN "center"
    ELSE LET ratio == <<event.clientX - rect.left, Max(rect.width, 1)>>
             vr == <<event.clientY - rect.top, Max(rect.height, 1)>>
         IN IF Less(ratio, Quarter) THEN "left"
            ELSE IF Less(ThreeQuarters, ratio) THEN "right"
            ELSE IF Less(vr, Quarter) THEN "top"
            ELSE IF Less(ThreeQuarters, vr) THEN "bottom"
            ELSE "center"

\* the longest side of a rectangle, in pixels
MaxSide == 8

\* the sides of the rectangles: none, one whose quarters are whole pixels, the longest
Sides == {0, 4, MaxSide}

\* the left and top of a rectangle: at the origin, and away from it
Offsets == {0, 3}

\* the pointer on either side of the farthest rectangle and in it
PointerCoordinates == 0..(3 + MaxSide)

DirectionInit ==
    /\ StateIs(Blank(FALSE))
    /\ snapshotTree = NullTree
    /\ scope = NoScope
    /\ closeRequest = NoRequest
    /\ resizer = NoResizer
    /\ sessionStore = NoStore
    /\ \E hasRect \in BOOLEAN, left, top \in Offsets, width, height \in Sides,
          clientX, clientY \in PointerCoordinates :
          /\ ~hasRect => (left = 0 /\ top = 0 /\ width = 0 /\ height = 0)
          /\ dropEvent = [hasRect |-> hasRect, left |-> left, top |-> top,
                          width |-> width, height |-> height,
                          clientX |-> clientX, clientY |-> clientY, direction |-> "none"]
    /\ hist = NoHist

GetDropDirection ==
    /\ dropEvent.direction = "none"
    /\ dropEvent' = [dropEvent EXCEPT !.direction = getDropDirection(dropEvent, dropEvent)]
    /\ UNCHANGED <<engine, snapshotTree, scope, closeRequest, resizer, sessionStore, hist>>

DirectionNext == GetDropDirection

SpecDirection == DirectionInit /\ [][DirectionNext]_vars

(* ----------------------------- the engine ------------------------------ *)
\* units created in one run of the engine
MaxEditors == 3
\* pane ids handed out in one run of the engine
MaxEnginePaneIds == 2

Range(seq) == {seq[i] : i \in 1..Len(seq)}

Or(a, b) == IF a # 0 THEN a ELSE b

PaneOf(s, ed) == IF ed # 0 THEN s.edPane[ed] ELSE 0

getPaneEditors(s, pane) == SelectSeq(s.editors, LAMBDA ed : s.edPane[ed] = pane)

getPrimaryEditorForPane(s, pane) ==
    With(getPaneEditors(s, pane), LAMBDA eds :
    IF s.activeEditor \in Range(eds) THEN s.activeEditor
    ELSE IF eds # <<>> THEN eds[1] ELSE 0)

(* a new element carries no class and is attached nowhere *)
ensurePaneElement(s, paneId) ==
    With(IF paneId = 0 THEN createPaneId(s) ELSE [s EXCEPT !.ret = paneId], LAMBDA c :
    IF c.ret \in c.paneDom THEN c
    ELSE [c EXCEPT !.paneDom = @ \cup {c.ret}, !.hiddenPanes = @ \ {c.ret}])

getPaneList(s) ==
    With(ensureTree(s), LAMBDA e :
    LET leaves == LeafSet(e.paneTree)
    IN [e EXCEPT !.paneDom = @ \cup leaves, !.hiddenPanes = @ \ (leaves \ e.paneDom)])

cleanupPane_keepLeaf(s, pane) ==
    IF pane = 0 THEN [s EXCEPT !.ret = 0]
    ELSE IF getPaneEditors(s, pane) = <<>>
    THEN [s EXCEPT !.containerPanes = @ \ {pane}, !.paneDom = @ \ {pane},
                   !.hiddenPanes = @ \ {pane}, !.ret = 1]
    ELSE [s EXCEPT !.ret = 0]

cleanupPane(s, pane) ==
    IF pane = 0 THEN [s EXCEPT !.ret = 0]
    ELSE IF getPaneEditors(s, pane) = <<>>
    THEN With(removeLeaf([s EXCEPT !.containerPanes = @ \ {pane}, !.paneDom = @ \ {pane},
                                   !.hiddenPanes = @ \ {pane}], pane), LAMBDA s2 :
         [s2 EXCEPT !.activePaneId = IF @ = pane THEN IdOf(getFirstLeaf(s2.paneTree)) ELSE @,
                    !.ret = 1])
    ELSE [s EXCEPT !.ret = 0]

moveEditorToPane(s, editorInstance, targetPane) ==
    IF editorInstance = 0 \/ targetPane = 0 THEN [s EXCEPT !.ret = 0]
    ELSE IF s.edPane[editorInstance] = targetPane THEN [s EXCEPT !.ret = 0]
    ELSE cleanupPane([s EXCEPT !.edPane[editorInstance] = targetPane],
                     s.edPane[editorInstance])

RECURSIVE mergeAllEditorsToPaneFrom(_, _, _, _)
mergeAllEditorsToPaneFrom(s, eds, i, targetPane) ==
    IF i > Len(eds) THEN s
    ELSE mergeAllEditorsToPaneFrom(moveEditorToPane(s, eds[i], targetPane), eds, i + 1,
                                   targetPane)

mergeAllEditorsToPane(s, targetPane) ==
    IF targetPane = 0 THEN s ELSE mergeAllEditorsToPaneFrom(s, s.editors, 1, targetPane)

(* the object built by the forEach of collapseToMobilePane: a later unit    *)
(* with the same session id overwrites the entry of an earlier one         *)
editorPaneMapOf(s) ==
    LET keyed == SelectSeq(s.editors, LAMBDA ed : s.sessionId[ed] # 0)
        lastOf(k) == CHOOSE i \in 1..Len(keyed) :
                         /\ s.sessionId[keyed[i]] = k
                         /\ \A j \in (i + 1)..Len(keyed) : s.sessionId[keyed[j]] # k
    IN [k \in {s.sessionId[ed] : ed \in Range(keyed)} |-> s.edPane[keyed[lastOf(k)]]]

\* collapseToMobilePane without the return of a collapsed layout
collapseToMobilePane_again(s) ==
    With(ensurePaneElement(
             [s EXCEPT !.desktopLayoutBackup =
                  [set |-> TRUE, tree |-> cloneTree(s.paneTree), activePaneId |-> s.activePaneId,
                   editorPaneMap |-> editorPaneMapOf(s)]],
             Or(s.activePaneId, IdOf(getFirstLeaf(s.paneTree)))), LAMBDA t :
    [mergeAllEditorsToPane(t, t.ret) EXCEPT
         !.paneTree = Leaf(t.ret), !.activePaneId = t.ret,
         !.paneDom = @ \cap {t.ret}, !.hiddenPanes = @ \cap {t.ret},
         !.isMobileCollapsed = TRUE, !.ret = t.ret])

collapseToMobilePane(s) ==
    IF s.isMobileCollapsed THEN ensurePaneElement(s, s.activePaneId)
    ELSE With(ensurePaneElement(
                  [s EXCEPT !.desktopLayoutBackup =
                       [set |-> TRUE, tree |-> cloneTree(s.paneTree), activePaneId |-> s.activePaneId,
                        editorPaneMap |-> editorPaneMapOf(s)]],
                  Or(s.activePaneId, IdOf(getFirstLeaf(s.paneTree)))), LAMBDA t :
         [mergeAllEditorsToPane(t, t.ret) EXCEPT
              !.paneTree = Leaf(t.ret), !.activePaneId = t.ret,
              !.paneDom = @ \cap {t.ret}, !.hiddenPanes = @ \cap {t.ret},
              !.isMobileCollapsed = TRUE, !.ret = t.ret])

RECURSIVE restoreEditorsFrom(_, _, _, _)
restoreEditorsFrom(s, eds, i, editorPaneMap) ==
    IF i > Len(eds) THEN s
    ELSE LET key == s.sessionId[eds[i]]
             targetId == IF key \in DOMAIN editorPaneMap THEN editorPaneMap[key] ELSE 0
         IN With(ensurePaneElement(s, Or(targetId, s.activePaneId)), LAMBDA pane :
            restoreEditorsFrom(moveEditorToPane(pane, eds[i], pane.ret), eds, i + 1,
                               editorPaneMap))

restoreFromMobileCollapse(s) ==
    IF ~s.isMobileCollapsed \/ ~s.desktopLayoutBackup.set THEN s
    ELSE LET backup == s.desktopLayoutBackup
         IN With(normalizeTree(cloneTree(backup.tree)), LAMBDA tree :
            With(IF tree.type # "null" THEN [s EXCEPT !.paneTree = tree] ELSE s, LAMBDA s1 :
            With([s1 EXCEPT !.activePaneId =
                      Or(backup.activePaneId, IdOf(getFirstLeaf(s1.paneTree)))], LAMBDA s2 :
            [restoreEditorsFrom(s2, s2.editors, 1, backup.editorPaneMap) EXCEPT
                 !.isMobileCollapsed = FALSE, !.desktopLayoutBackup = NoBackup])))

updatePaneVisibility(s) ==
    With(getPaneList(s), LAMBDA g :
    LET hide(pane) ==
            With(getPrimaryEditorForPane(g, pane), LAMBDA activeInPane :
            IF activeInPane = 0 THEN TRUE
            ELSE IF g.mobile THEN activeInPane # g.activeEditor ELSE FALSE)
        leaves == LeafSet(g.paneTree)
        inPanes == {ed \in Range(g.editors) : g.edPane[ed] \in leaves}
    IN [g EXCEPT !.hiddenPanes = (@ \ leaves) \cup {pane \in leaves : hide(pane)},
                 !.hiddenHosts = (@ \ inPanes) \cup
                     {ed \in inPanes : ed # getPrimaryEditorForPane(g, g.edPane[ed])}])

layoutPanes(s) ==
    With(ensureTree([s EXCEPT !.containerPanes = {}, !.layouts = @ + 1]), LAMBDA e :
    IF e.mobile
    THEN With(collapseToMobilePane(e), LAMBDA c :
         LET editorsInPane == Range(getPaneEditors(c, c.ret))
             activeInPane == getPrimaryEditorForPane(c, c.ret)
         IN [c EXCEPT !.containerPanes = {c.ret},
                      !.hiddenHosts = (@ \ editorsInPane) \cup (editorsInPane \ {activeInPane})])
    ELSE With(restoreFromMobileCollapse(e), LAMBDA r :
         LET leaves == LeafSet(r.paneTree)
         IN updatePaneVisibility(
                [r EXCEPT !.paneDom = @ \cup leaves,
                          !.hiddenPanes = @ \ (leaves \ r.paneDom),
                          !.containerPanes = leaves])))

syncLayout(s, force) ==
    IF s.draggedEditor # 0 /\ ~force THEN s ELSE layoutPanes(getPaneList(s))

setActiveEditor(s, editorInstance) ==
    LET pane == PaneOf(s, editorInstance)
    IN With([s EXCEPT !.activeEditor = editorInstance, !.activePaneId = Or(pane, @)],
            LAMBDA s1 :
       IF pane # 0 /\ pane \notin s1.containerPanes
       THEN syncLayout(s1, FALSE)
       ELSE updatePaneVisibility(s1))

(* the synchronous part of persistPage: getSnapshot, which calls ensureTree *)
persistPage(s) == ensureTree([s EXCEPT !.persists = @ + 1])

createPane(s, paneId) ==
    With(ensureTree(s), LAMBDA e :
    With(ensurePaneElement(e, Or(paneId, e.activePaneId)), LAMBDA p :
    With([p EXCEPT !.edPane = Append(@, p.ret),
                   !.sessionId = Append(@, p.nextEditorId), !.nextEditorId = @ + 1,
                   !.ret = p.nextEditorId], LAMBDA c :
    IF c.activeEditor = 0 THEN [setActiveEditor(c, c.ret) EXCEPT !.ret = c.ret] ELSE c)))

addEditorPane(s, asSplit, targetPaneId) ==
    With(ensureTree(s), LAMBDA e :
    With(IF asSplit \/ Or(targetPaneId, e.activePaneId) = 0
         THEN With(splitPane(e, Or(e.activePaneId, IdOf(getFirstLeaf(e.paneTree))),
                             "right", 0), LAMBDA t :
              With(IF Or(t.ret, Or(targetPaneId, e.activePaneId)) # 0
                   THEN [t EXCEPT !.ret = Or(@, Or(targetPaneId, e.activePaneId))]
                   ELSE createPaneId(t), LAMBDA u :
              [u EXCEPT !.activePaneId = u.ret]))
         ELSE [e EXCEPT !.ret = Or(targetPaneId, e.activePaneId)], LAMBDA sp :
    With(createPane(sp, sp.ret), LAMBDA c :
    [syncLayout(setActiveEditor([c EXCEPT !.editors = Append(@, c.ret)], c.ret), FALSE)
         EXCEPT !.ret = c.ret])))

\* removePane without the removal of the emptied leaf
removePane_keepLeaf(s, editorInstance) ==
    LET pane == s.edPane[editorInstance]
    IN With([s EXCEPT !.editors = SelectSeq(@, LAMBDA ed : ed # editorInstance)], LAMBDA f :
       With(getPaneEditors(f, pane), LAMBDA remainingInPane :
       With(IF remainingInPane = <<>> /\ pane # 0
            THEN [f EXCEPT !.containerPanes = @ \ {pane}, !.paneDom = @ \ {pane},
                           !.hiddenPanes = @ \ {pane}]
            ELSE f, LAMBDA r :
       LET nextEditor == IF remainingInPane # <<>> THEN remainingInPane[1]
                         ELSE IF r.editors # <<>> THEN r.editors[1] ELSE 0
       IN With(IF r.activeEditor = editorInstance
               THEN IF nextEditor # 0
                    THEN setActiveEditor([r EXCEPT !.activeEditor = 0], nextEditor)
                    ELSE [r EXCEPT !.activeEditor = 0]
               ELSE r, LAMBDA a :
          [persistPage(syncLayout(a, FALSE)) EXCEPT !.ret = 0]))))

removePane(s, editorInstance) ==
    LET pane == s.edPane[editorInstance]
    IN With([s EXCEPT !.editors = SelectSeq(@, LAMBDA ed : ed # editorInstance)], LAMBDA f :
       With(getPaneEditors(f, pane), LAMBDA remainingInPane :
       With(IF remainingInPane = <<>> /\ pane # 0
            THEN removeLeaf([f EXCEPT !.containerPanes = @ \ {pane}, !.paneDom = @ \ {pane},
                                      !.hiddenPanes = @ \ {pane}], pane)
            ELSE f, LAMBDA r :
       LET nextEditor == IF remainingInPane # <<>> THEN remainingInPane[1]
                         ELSE IF r.editors # <<>> THEN r.editors[1] ELSE 0
       IN With(IF r.activeEditor = editorInstance
               THEN IF nextEditor # 0
                    THEN setActiveEditor([r EXCEPT !.activeEditor = 0], nextEditor)
                    ELSE [r EXCEPT !.activeEditor = 0]
               ELSE r, LAMBDA a :
          [persistPage(syncLayout(a, FALSE)) EXCEPT !.ret = 0]))))

(* ---------------- loading a stored record (applySnapshot) --------------- *)
(* A stored record: isArray tells whether it has an editors array (a       *)
(* record without one describes a single unit), editors the entries of     *)
(* that array with their id and paneId, tree, activePaneId and activeId    *)
(* the fields of its layout; 0 and NullTree are absent fields.             *)
getSnapshot(s) ==
    With(ensureTree(s), LAMBDA e :
    [isArray |-> TRUE,
     editors |-> [i \in 1..Len(e.editors) |->
                     [id |-> e.sessionId[e.editors[i]], paneId |-> e.edPane[e.editors[i]]]],
     tree |-> e.paneTree, activePaneId |-> e.activePaneId,
     activeId |-> IF e.activeEditor # 0 THEN e.sessionId[e.activeEditor] ELSE 0])

RECURSIVE applySnapshotEditors(_, _, _)
applySnapshotEditors(s, editorsData, i) ==
    IF i > Len(editorsData) THEN s
    ELSE With(addEditorPane(s, FALSE, editorsData[i].paneId), LAMBDA a :
         IF a.ret # 0 /\ editorsData[i].id # 0
         THEN applySnapshotEditors([a EXCEPT !.sessionId[a.ret] = editorsData[i].id],
                                   editorsData, i + 1)
         ELSE applySnapshotEditors(a, editorsData, i + 1))

applySnapshot(s, snapshot, replace) ==
    LET data == IF snapshot.isArray THEN snapshot.editors ELSE <<[id |-> 0, paneId |-> 0]>>
    IN With(IF replace
            THEN [s EXCEPT !.editors = <<>>, !.containerPanes = {}, !.activeEditor = 0,
                           !.paneDom = {}, !.paneTree = NullTree]
            ELSE s, LAMBDA r :
       With(IF snapshot.tree.type # "null"
            THEN [r EXCEPT !.paneTree = normalizeTree(snapshot.tree), !.ret = 0]
            ELSE IF r.paneTree.type = "null"
            THEN With(IF data # <<>> /\ data[1].paneId # 0
                      THEN [r EXCEPT !.ret = data[1].paneId] ELSE createPaneId(r), LAMBDA b :
                 [b EXCEPT !.paneTree = Leaf(b.ret)])
            ELSE [r EXCEPT !.ret = 0], LAMBDA t :
       LET editorsData == [i \in 1..Len(data) |->
                              [data[i] EXCEPT !.paneId = Or(@, t.ret)]]
       IN With(applySnapshotEditors(t, editorsData, 1), LAMBDA l :
          With([l EXCEPT !.activePaneId =
                    Or(snapshot.activePaneId, Or(@, IdOf(getFirstLeaf(l.paneTree))))],
               LAMBDA a :
          LET wanted == SelectSeq(a.editors, LAMBDA ed :
                            snapshot.activeId # 0 /\ a.sessionId[ed] = snapshot.activeId)
              nextActive == IF wanted # <<>> THEN wanted[1]
                            ELSE IF a.editors # <<>> THEN Last(a.editors) ELSE 0
          IN [syncLayout(IF nextActive # 0 THEN setActiveEditor(a, nextActive) ELSE a, FALSE)
                  EXCEPT !.ret = 0]))))

(* ------------------------------ resizers ------------------------------- *)
MinExtent == 80

(* seq[i] = v of a JavaScript array, i counted from 1 *)
SetAt(seq, i, v) ==
    [j \in 1..Max(Len(seq), i) |->
        IF j = i THEN v ELSE IF j <= Len(seq) THEN seq[j] ELSE Undefined]

(* the mousedown listener of a resizer: client is clientX or clientY, the  *)
(* widths or heights are those of getBoundingClientRect                    *)
onMouseDown(path, idx, client, prevExtent, nextExtent) ==
    [on |-> TRUE, path |-> path, idx |-> idx, start |-> client,
     prevStart |-> prevExtent, nextStart |-> Or(nextExtent, prevExtent),
     moved |-> FALSE, newPrev |-> 0, newNext |-> 0]

\* the extents of onMouseMove without the lower bound of newNext
resizedExtents_free(rz, client) ==
    LET total == rz.prevStart + rz.nextStart
        newPrev == Max(MinExtent, Min(total - MinExtent, rz.prevStart + (client - rz.start)))
    IN [newPrev |-> newPrev, newNext |-> total - newPrev]

(* the pixel extents onMouseMove computes; both branches, col and row, are *)
(* the same computation on clientX and on clientY                          *)
resizedExtents(rz, client) ==
    LET total == rz.prevStart + rz.nextStart
        newPrev == Max(MinExtent, Min(total - MinExtent, rz.prevStart + (client - rz.start)))
    IN [newPrev |-> newPrev, newNext |-> Max(MinExtent, total - newPrev)]

(* the writes of onMouseMove to node.sizes; nextEl is always an element *)
writeSizes(node, idx, newPrev, newNext) ==
    LET sizes == IF "sizes" \in DOMAIN node THEN node.sizes ELSE Uniform(Len(node.children))
        written == SetAt(sizes, idx, Ratio(newPrev, newPrev + newNext))
    IN [type |-> "split", dir |-> node.dir, children |-> node.children,
        sizes |-> IF idx + 1 <= Len(written) /\ written[idx + 1] # Undefined
                  THEN SetAt(written, idx + 1, Ratio(newNext, newPrev + newNext))
                  ELSE written]

onMouseMove(s, rz, client) ==
    LET e == resizedExtents(rz, client)
    IN [s EXCEPT !.paneTree = ReplaceAt(@, rz.path,
                     writeSizes(NodeAt(@, rz.path), rz.idx, e.newPrev, e.newNext))]

\* onMouseUp without the call of persistPage
onMouseUp_silent(s) == s

(* onMouseUp, after it has removed the two listeners *)
onMouseUp(s) == persistPage(s)

(* --------------------------- session store ---------------------------- *)
(* The record persistPage hands to sessionStore.put: the units as          *)
(* getSnapshot lists them, and layout.tree, which is this.paneTree itself, *)
(* not a copy.  The tree object is followed until store.put copies it:     *)
(* live says that its innermost node is the root of this.paneTree, tree is *)
(* that node otherwise, and wraps are the split nodes around it, which     *)
(* removeLeaf has left with one child.  treeAtCall is the value of the     *)
(* tree when persistPage was called.                                       *)
snapshotRecord(s) ==
    With(getSnapshot(s), LAMBDA g :
    [editors |-> g.editors, treeAtCall |-> g.tree, live |-> TRUE, wraps |-> <<>>,
     tree |-> g.tree])

RECURSIVE Wrapped(_, _, _)
Wrapped(wraps, i, inner) ==
    IF i > Len(wraps) THEN inner
    ELSE [type |-> "split", dir |-> wraps[i].dir,
          children |-> <<Wrapped(wraps, i + 1, inner)>>, sizes |-> wraps[i].sizes]

(* the tree object of a record as it is now, liveTree being this.paneTree *)
heldTree(rec, liveTree) ==
    Wrapped(rec.wraps, 1, IF rec.live THEN liveTree ELSE rec.tree)

(* splitPane replaces the root when the leaf it splits has no parent, and  *)
(* assigns to parent.children otherwise                                    *)
heldAfterSplit(rec, tree, paneId) ==
    IF rec.live /\ tree.type = "leaf" /\ tree.id = paneId
    THEN [rec EXCEPT !.live = FALSE, !.tree = tree]
    ELSE rec

(* removeLeaf sets the tree to null when the leaf has no parent; it        *)
(* splices the leaf out of parent.children, and when one child remains it  *)
(* makes that child the root if the parent was the root, and splices it    *)
(* into the children of the parent's parent otherwise                      *)
heldAfterRemove(rec, tree, paneId) ==
    With(findLeaf(tree, paneId), LAMBDA info :
    IF ~rec.live \/ ~info.found THEN rec
    ELSE IF tree.type = "leaf" THEN [rec EXCEPT !.live = FALSE, !.tree = tree]
    ELSE IF Len(info.path) = 1 /\ Len(tree.children) = 2
    THEN [rec EXCEPT !.wraps = Append(@, [dir |-> tree.dir, sizes |-> tree.sizes])]
    ELSE rec)

(* removePane removes the leaf of the pane of the unit when the unit was   *)
(* the last of the pane                                                    *)
heldAfterRemovePane(rec, s, editorInstance) ==
    IF \E ed \in Range(s.editors) : ed # editorInstance /\ s.edPane[ed] = s.edPane[editorInstance]
    THEN rec
    ELSE heldAfterRemove(rec, s.paneTree, s.edPane[editorInstance])

(* sessionStore.put after openDb has resolved: store.put(session) copies   *)
(* the record, the tree as it is then; the mark treeAtCall is kept beside  *)
(* the copy                                                                *)
storePut(rec, liveTree) ==
    [editors |-> rec.editors, tree |-> cloneTree(heldTree(rec, liveTree)),
     treeAtCall |-> rec.treeAtCall]

\* the tab-close handler after askConfirm has resolved with ok, without the test of ok
handleTabClose_always(s, editorInstance, ok) == removePane(s, editorInstance)

(* the tab-close handler after askConfirm has resolved with ok *)
handleTabClose(s, editorInstance, ok) ==
    IF ~ok THEN s ELSE removePane(s, editorInstance)

setContainerDropHint(s, direction) ==
    [s EXCEPT !.containerDropHint = direction, !.lastContainerHint = direction]

clearPaneHints(s) == [s EXCEPT !.paneHints = {h \in @ : h.pane \notin s.containerPanes}]

setPaneDropHint(s, pane, direction) ==
    IF pane = 0 THEN s
    ELSE [setContainerDropHint(clearPaneHints(s), NoDir) EXCEPT
              !.paneHints = {h \in @ : h.pane # pane} \cup {[pane |-> pane, dir |-> direction]}]

clearDropIndicators(s) ==
    [clearPaneHints(setContainerDropHint(s, NoDir)) EXCEPT
         !.tabDropTarget = NoTarget, !.lastContainerHint = NoDir]

handleTabDragStart(s, editorInstance) ==
    [s EXCEPT !.draggedEditor = editorInstance, !.lastContainerHint = NoDir,
              !.dragAnchorEditor = s.activeEditor]

handleTabDragEnd(s) ==
    clearDropIndicators([s EXCEPT !.draggedEditor = 0, !.dragAnchorEditor = 0,
                                  !.tabDropTarget = NoTarget])

handleContainerDragOver(s, direction) ==
    IF s.draggedEditor = 0 THEN s
    ELSE IF direction = s.lastContainerHint THEN s
    ELSE setContainerDropHint(s, direction)

handlePaneDragOver(s, pane, direction) ==
    IF s.draggedEditor = 0 THEN s
    ELSE IF [pane |-> pane, dir |-> direction] \in s.paneHints THEN s
    ELSE setPaneDropHint(s, pane, direction)

applyDrop(s, direction, referenceEditor) ==
    LET editor == s.draggedEditor
        others == SelectSeq(s.editors, LAMBDA ed : ed # editor)
        fallback == IF s.dragAnchorEditor # 0 /\ s.dragAnchorEditor # editor
                    THEN s.dragAnchorEditor
                    ELSE IF others # <<>> THEN others[1] ELSE 0
        ref == IF referenceEditor = editor THEN Or(fallback, editor) ELSE referenceEditor
        targetPane == Or(PaneOf(s, ref), PaneOf(s, s.activeEditor))
        center == direction = "center" /\ targetPane # 0 /\ targetPane # s.edPane[editor]
        paneId == Or(targetPane, Or(s.activePaneId, IdOf(getFirstLeaf(s.paneTree))))
    IN IF editor = 0 THEN s
       ELSE With(IF center
                 THEN [moveEditorToPane(s, editor, targetPane) EXCEPT
                           !.activePaneId = targetPane]
                 ELSE IF direction = "center" THEN [s EXCEPT !.ret = 0]
                 ELSE With(splitPane(s, paneId, direction, 0), LAMBDA sp :
                      With(IF sp.ret # 0 THEN sp ELSE createPaneId(sp), LAMBDA np :
                      [moveEditorToPane(ensurePaneElement(np, np.ret), editor, np.ret)
                           EXCEPT !.activePaneId = np.ret, !.ret = 1])), LAMBDA m :
            With(setActiveEditor(m, editor), LAMBDA a :
            clearDropIndicators(
                [persistPage(IF m.ret # 0 THEN syncLayout(a, TRUE)
                             ELSE updatePaneVisibility(a))
                     EXCEPT !.draggedEditor = 0, !.dragAnchorEditor = 0, !.ret = 0])))

handlePaneDrop(s, pane, direction) ==
    IF s.draggedEditor = 0 THEN s
    ELSE applyDrop(s, direction, getPrimaryEditorForPane(s, pane))

(* direction is getDropDirection(event, this.container) *)
handleContainerDrop(s, direction) ==
    IF s.draggedEditor = 0 THEN s
    ELSE applyDrop(s, IF s.containerDropHint # NoDir THEN s.containerDropHint ELSE direction,
                   s.activeEditor)

(* Array.prototype.indexOf, 1-based; 0 when absent *)
IndexOf(seq, x) ==
    IF \E i \in 1..Len(seq) : seq[i] = x
    THEN CHOOSE i \in 1..Len(seq) : seq[i] = x /\ \A j \in 1..(i - 1) : seq[j] # x
    ELSE 0

(* Array.prototype.splice(at, 0, x) with a 0-based position at *)
InsertAt(seq, at, x) ==
    LET k == IF at > Len(seq) THEN Len(seq) ELSE at
    IN SubSeq(seq, 1, k) \o <<x>> \o SubSeq(seq, k + 1, Len(seq))

\* reorderEditorsForTabDrop without the removal of the unit from the list
reorderEditorsForTabDrop_twice(s, editor, targetEditor, position, paneForAppend) ==
    IF editor = 0 THEN s ELSE [s EXCEPT !.editors = Append(@, editor)]

reorderEditorsForTabDrop_after(s, editor, targetEditor, position, paneForAppend) ==
    IF editor = 0 THEN s
    ELSE With([s EXCEPT !.editors = SelectSeq(@, LAMBDA ed : ed # editor)], LAMBDA f :
         IF targetEditor = 0 THEN [f EXCEPT !.editors = Append(@, editor)]
         ELSE [f EXCEPT !.editors = InsertAt(@, IndexOf(f.editors, targetEditor), editor)])

reorderEditorsForTabDrop(s, editor, targetEditor, position, paneForAppend) ==
    IF editor = 0 THEN s
    ELSE With([s EXCEPT !.editors = SelectSeq(@, LAMBDA ed : ed # editor)], LAMBDA f :
         IF targetEditor = 0 THEN [f EXCEPT !.editors = Append(@, editor)]
         ELSE LET targetIdx == IndexOf(f.editors, targetEditor) - 1
                  peers == getPaneEditors(f, paneForAppend)
                  lastIdx == IF peers = <<>> THEN -1
                             ELSE IndexOf(f.editors, peers[Len(peers)]) - 1
                  insertAt == IF targetIdx = -1 /\ paneForAppend # 0
                              THEN IF lastIdx >= 0 THEN lastIdx + 1 ELSE Len(f.editors)
                              ELSE IF position = "before" THEN targetIdx ELSE targetIdx + 1
              IN [f EXCEPT !.editors = InsertAt(@, IF insertAt < 0 THEN 0 ELSE insertAt,
                                                editor)])

(* findTabInsertTarget(list, event): the results the pointer's x position  *)
(* can give on the tab list of a pane                                     *)
findTabInsertTarget(s, pane) ==
    LET tabs == getPaneEditors(s, pane)
    IN IF tabs = <<>> THEN {[editor |-> 0, position |-> "after"]}
       ELSE {[editor |-> tabs[1], position |-> "before"]}
            \cup {[editor |-> tabs[i], position |-> "after"] : i \in 1..Len(tabs)}

(* the common tail of handleTabDropOnTarget and handleTabsAreaDrop *)
finishTabDrop(s, treeChanged) ==
    With(setActiveEditor(s, s.draggedEditor), LAMBDA a :
    clearDropIndicators(
        [persistPage(IF treeChanged THEN syncLayout(a, TRUE) ELSE updatePaneVisibility(a))
             EXCEPT !.draggedEditor = 0, !.dragAnchorEditor = 0, !.ret = 0]))

(* side is getTabSide(event, tabEl) *)
handleTabDragOverTarget(s, targetEditor, side) ==
    IF s.draggedEditor = 0 THEN s
    ELSE [s EXCEPT !.tabDropTarget = [set |-> TRUE, editor |-> targetEditor,
                                      pane |-> s.edPane[targetEditor], position |-> side]]

handleTabDropOnTarget(s, targetEditor, side) ==
    IF s.draggedEditor = 0 THEN s
    ELSE LET targetPane == s.edPane[targetEditor]
             moves == targetPane # 0 /\ targetPane # s.edPane[s.draggedEditor]
         IN With(IF moves THEN moveEditorToPane(s, s.draggedEditor, targetPane)
                 ELSE [s EXCEPT !.ret = 0], LAMBDA m :
            finishTabDrop(reorderEditorsForTabDrop(m, s.draggedEditor, targetEditor, side,
                                                   targetPane), m.ret # 0))

(* found is findTabInsertTarget(list, event) *)
handleTabsAreaDragOver(s, pane, found) ==
    IF s.draggedEditor = 0 THEN s
    ELSE [s EXCEPT !.tabDropTarget = [set |-> TRUE, editor |-> found.editor,
                                      pane |-> pane, position |-> found.position]]

handleTabsAreaDrop(s, pane, found) ==
    IF s.draggedEditor = 0 THEN s
    ELSE LET target == IF s.tabDropTarget.set THEN s.tabDropTarget ELSE found
             moves == pane # 0 /\ pane # s.edPane[s.draggedEditor]
         IN With(IF moves THEN moveEditorToPane(s, s.draggedEditor, pane)
                 ELSE [s EXCEPT !.ret = 0], LAMBDA m :
            LET targetEd == Or(target.editor,
                               Or(getPrimaryEditorForPane(m, pane), s.draggedEditor))
            IN finishTabDrop(reorderEditorsForTabDrop(m, s.draggedEditor, targetEd,
                                                      target.position, pane), m.ret # 0))

(* ------------------------------- events -------------------------------- *)
(* the directions getDropDirection reports for the drops; top is taken up  *)
(* by left, with which it shares every branch but the name of the axis     *)
DropDirections == {"center", "left", "right", "bottom"}

(* renderTabs shows the tab strip of a pane when the pane holds several    *)
(* units or several panes hold units; a tab can be used when its pane is   *)
(* attached and not hidden.                                                *)
TabShown(ed) ==
    /\ ed \in Range(editors)
    /\ edPane[ed] \in containerPanes \ hiddenPanes
    /\ \/ Len(getPaneEditors(This, edPane[ed])) > 1
       \/ Cardinality({edPane[e] : e \in Range(editors)}) > 1

TabStripShown(pane) == \E ed \in Range(editors) : edPane[ed] = pane /\ TabShown(ed)

\* the directions the dragover events of the drag specification report
HoverDirections == {"center", "left"}

WithinBounds(s) ==
    s.nextPaneId <= scope.panes + 1 /\ s.nextEditorId <= scope.editors + 1

(* the last operation, its arguments (the unit it acts on, the pane and    *)
(* the direction or side it is given, the unit whose tab it is aimed at),  *)
(* the pane its unit was assigned to before the operation, the number of   *)
(* layout runs and of persistence requests the operation made, and whether *)
(* it collapsed the layout to the mobile pane or restored it from there    *)
RecordOp(s, op, ed, pane, dir, target) ==
    [op |-> op, ed |-> ed, pane |-> pane, dir |-> dir, target |-> target,
     from |-> IF ed \in DOMAIN edPane THEN edPane[ed] ELSE 0,
     layouts |-> s.layouts, persists |-> s.persists,
     collapsed |-> ~isMobileCollapsed /\ s.isMobileCollapsed,
     restored |-> isMobileCollapsed /\ ~s.isMobileCollapsed]

(* A closed unit that nothing refers to any more is garbage: its fields    *)
(* can no longer be read, so its pane reference is dropped; so are the     *)
(* classes of a pane element that nothing refers to any more.              *)
CollectBut(s, held) ==
    LET live == Range(s.editors) \cup {s.activeEditor, s.draggedEditor, s.dragAnchorEditor}
                \cup {held}
                \cup (IF s.tabDropTarget.set THEN {s.tabDropTarget.editor} ELSE {})
        panes == s.paneDom \cup s.containerPanes \cup {s.edPane[ed] : ed \in live \ {0}}
                 \cup (IF s.tabDropTarget.set THEN {s.tabDropTarget.pane} ELSE {})
    IN [s EXCEPT !.edPane = [ed \in DOMAIN s.edPane |->
                                IF ed \in live THEN s.edPane[ed] ELSE 0],
                 !.sessionId = [ed \in DOMAIN s.sessionId |->
                                   IF ed \in live THEN s.sessionId[ed] ELSE 0],
                 !.hiddenHosts = @ \cap live,
                 !.paneHints = {h \in @ : h.pane \in panes}]

Collect(s) == CollectBut(s, closeRequest.ed)

DoOn(s, op, ed, pane, dir, target) ==
    /\ WithinBounds(s)
    /\ Commit(Collect(s))
    /\ hist' = RecordOp(s, op, ed, pane, dir, target)
    /\ UNCHANGED <<snapshotTree, scope, closeRequest, resizer, sessionStore, dropEvent>>

(* an operation of the tab-close handler: request is the click that awaits *)
(* its confirmation after it                                               *)
DoClose(s, op, ed, pane, dir, request) ==
    /\ WithinBounds(s)
    /\ Commit(CollectBut(s, request.ed))
    /\ hist' = RecordOp(s, op, ed, pane, dir, 0)
    /\ closeRequest' = request
    /\ UNCHANGED <<snapshotTree, scope, resizer, sessionStore, dropEvent>>

(* an operation of a resizer: rz is the resizer whose listeners are on the *)
(* document after it                                                       *)
DoResizer(s, op, rz) ==
    /\ WithinBounds(s)
    /\ Commit(Collect(s))
    /\ hist' = RecordOp(s, op, 0, 0, "none", 0)
    /\ resizer' = rz
    /\ UNCHANGED <<snapshotTree, scope, closeRequest, sessionStore, dropEvent>>

(* an operation while calls of sessionStore.put are under way: held tells  *)
(* what the operation does to the tree object of a record handed over      *)
(* before; a call of persistPage in the operation hands over one more.     *)
(* Some unit is taken to have content, so that persistPage does not return *)
(* early.                                                                  *)
DoStore(s, op, ed, held(_)) ==
    /\ WithinBounds(s)
    /\ s.persists > 0 => Len(sessionStore.pending) < MaxPending
    /\ Commit(Collect(s))
    /\ hist' = RecordOp(s, op, ed, 0, "none", 0)
    /\ sessionStore' =
          [sessionStore EXCEPT !.pending =
              [i \in 1..Len(@) |-> held(@[i])]
              \o (IF s.persists > 0 THEN <<snapshotRecord(s)>> ELSE <<>>)]
    /\ UNCHANGED <<snapshotTree, scope, closeRequest, resizer, dropEvent>>

Do(s, op, ed, pane, dir) == DoOn(s, op, ed, pane, dir, 0)

AddTab ==
    /\ draggedEditor = 0
    /\ Do(addEditorPane(This, FALSE, 0), "addTab", 0, 0, "none")

AddSplit ==
    /\ draggedEditor = 0
    /\ Do(addEditorPane(This, TRUE, 0), "addSplit", 0, 0, "none")

TabClick ==
    \E ed \in Range(editors) :
        /\ draggedEditor = 0
        /\ TabShown(ed)
        /\ Do(setActiveEditor(This, ed), "tabClick", ed, 0, "none")

TabClose ==
    \E ed \in Range(editors) :
        /\ draggedEditor = 0
        /\ TabShown(ed)
        /\ Do(removePane(This, ed), "tabClose", ed, 0, "none")

Resize ==
    \E m \in BOOLEAN :
        Do(syncLayout([This EXCEPT !.mobile = m], TRUE), "resize", 0, 0, "none")

TabDragStart ==
    \E ed \in Range(editors) :
        /\ draggedEditor = 0
        /\ TabShown(ed)
        /\ Do(handleTabDragStart(This, ed), "dragStart", ed, 0, "none")

TabDragEnd ==
    /\ draggedEditor # 0
    /\ Do(handleTabDragEnd(This), "dragEnd", 0, 0, "none")

PaneDrop ==
    \E pane \in containerPanes \ hiddenPanes, direction \in DropDirections :
        /\ draggedEditor # 0
        /\ Do(handlePaneDrop(This, pane, direction), "paneDrop", draggedEditor, pane, direction)

ContainerDrop ==
    \E direction \in DropDirections :
        /\ draggedEditor # 0
        /\ Do(handleContainerDrop(This, direction), "containerDrop", draggedEditor,
              PaneOf(This, activeEditor),
              IF containerDropHint # NoDir THEN containerDropHint ELSE direction)

TabDrop ==
    \E targetEditor \in Range(editors), side \in {"before", "after"} :
        /\ draggedEditor # 0
        /\ TabShown(targetEditor)
        /\ DoOn(handleTabDropOnTarget(This, targetEditor, side), "tabDrop", draggedEditor,
                edPane[targetEditor], side, targetEditor)

TabsAreaDrop ==
    \E pane \in containerPanes \ hiddenPanes :
        \E found \in findTabInsertTarget(This, pane) :
            /\ draggedEditor # 0
            /\ TabStripShown(pane)
            /\ DoOn(handleTabsAreaDrop(This, pane, found), "tabsAreaDrop", draggedEditor,
                    pane,
                    IF tabDropTarget.set THEN tabDropTarget.position ELSE found.position,
                    IF tabDropTarget.set THEN tabDropTarget.editor ELSE found.editor)

ContainerDragOver ==
    \E direction \in HoverDirections :
        /\ draggedEditor # 0
        /\ Do(handleContainerDragOver(This, direction), "dragOver", 0, 0, "none")

(* the dragover of a pane bubbles to the container's listener *)
PaneDragOver ==
    \E pane \in containerPanes \ hiddenPanes, direction \in HoverDirections,
       inContainer \in HoverDirections :
        /\ draggedEditor # 0
        /\ Do(handleContainerDragOver(handlePaneDragOver(This, pane, direction), inContainer),
              "dragOver", 0, 0, "none")

TabDragOver ==
    \E targetEditor \in Range(editors), side \in {"before", "after"} :
        /\ draggedEditor # 0
        /\ TabShown(targetEditor)
        /\ Do(handleTabDragOverTarget(This, targetEditor, side), "dragOver", 0, 0, "none")

TabsAreaDragOver ==
    \E pane \in containerPanes \ hiddenPanes :
        \E found \in findTabInsertTarget(This, pane) :
            /\ draggedEditor # 0
            /\ TabStripShown(pane)
            /\ Do(handleTabsAreaDragOver(This, pane, found), "dragOver", 0, 0, "none")

(* dragleave of the container or of a pane *)
DragLeave ==
    /\ draggedEditor # 0
    /\ Do(clearDropIndicators(This), "dragOver", 0, 0, "none")

(* the records of the session store: written by persistPage in an earlier  *)
(* run, so their unit and pane ids are ids that this run never hands out   *)
StoredTrees == {Leaf(-1), SplitNode("col", Leaf(-1), Leaf(-2))}

StoredEditors(tree) ==
    {<<[id |-> -1, paneId |-> p]>> : p \in LeafSet(tree)}
    \cup {<<[id |-> -1, paneId |-> p], [id |-> -2, paneId |-> q]>> :
              p \in LeafSet(tree), q \in LeafSet(tree)}

StoredSnapshots ==
    {[isArray |-> FALSE, editors |-> <<>>, tree |-> NullTree, activePaneId |-> 0,
      activeId |-> 0]}
    \cup UNION {UNION {{[isArray |-> TRUE, editors |-> eds, tree |-> tree,
                         activePaneId |-> eds[a].paneId, activeId |-> eds[a].id] :
                            a \in 1..Len(eds)} :
                       eds \in StoredEditors(tree)} :
                tree \in StoredTrees}

(* app.js loads a record with replace = true *)
LoadSnapshot ==
    \E snapshot \in StoredSnapshots :
        /\ draggedEditor = 0
        /\ Do(applySnapshot(This, snapshot, TRUE), "load", 0, 0, "none")

(* the record of the current page is taken and loaded at once *)
ReloadSnapshot ==
    /\ draggedEditor = 0
    /\ Do(applySnapshot(ensureTree(This), getSnapshot(This), TRUE), "reload", 0, 0, "none")

(* the click on a tab's close button, up to the await of askConfirm; a     *)
(* second askConfirm takes over the buttons of the dialog, so that the     *)
(* promise of the first never resolves                                     *)
TabCloseRequest ==
    \E ed \in Range(editors) :
        /\ draggedEditor = 0
        /\ TabShown(ed)
        /\ DoClose(This, "closeRequest", ed, edPane[ed], "none",
                   [ed |-> ed, pane |-> edPane[ed]])

(* the rest of the handler, run when askConfirm resolves *)
TabCloseConfirm ==
    \E ok \in BOOLEAN :
        /\ closeRequest.ed # 0
        /\ DoClose(handleTabClose(This, closeRequest.ed, ok), "closeConfirm",
                   closeRequest.ed, closeRequest.pane, IF ok THEN "ok" ELSE "cancel",
                   NoRequest)

(* the operations of the persistence specification *)
StoreAddTab ==
    DoStore(addEditorPane(This, FALSE, 0), "addTab", 0, LAMBDA rec : rec)

StoreAddSplit ==
    DoStore(addEditorPane(This, TRUE, 0), "addSplit", 0,
            LAMBDA rec : heldAfterSplit(rec, paneTree,
                                        Or(activePaneId, IdOf(getFirstLeaf(paneTree)))))

StoreTabClose ==
    \E ed \in Range(editors) :
        /\ TabShown(ed)
        /\ DoStore(removePane(This, ed), "tabClose", ed,
                   LAMBDA rec : heldAfterRemovePane(rec, This, ed))

(* the onChange callback of a unit whose text was edited *)
EditorChange ==
    \E ed \in Range(editors) :
        DoStore(persistPage(This), "change", ed, LAMBDA rec : rec)

(* openDb of the oldest call of sessionStore.put resolves *)
StoreWrite ==
    /\ sessionStore.pending # <<>>
    /\ sessionStore' = [pending |-> Tail(sessionStore.pending),
                        written |-> <<storePut(sessionStore.pending[1], paneTree)>>]
    /\ hist' = RecordOp(This, "storeWrite", 0, 0, "none", 0)
    /\ UNCHANGED <<engine, snapshotTree, scope, closeRequest, resizer, dropEvent>>

(* the pixel extents of a child of a split, and the pointer positions      *)
(* along the axis of the split                                             *)
Extents == {0, 50, 120, 400}

PointerPositions == {-600, -30, 0, 30, 600}

(* pointer-down on the resizer between children idx and idx + 1 of a split *)
(* that the last layout run has rendered; one pointer is pressed and       *)
(* released in turn                                                        *)
ResizerDown ==
    \E path \in SplitPaths(paneTree), prevExtent \in Extents \ {0}, nextExtent \in Extents :
      \E idx \in 1..(Len(NodeAt(paneTree, path).children) - 1) :
        /\ ~resizer.on
        /\ draggedEditor = 0
        /\ ~mobile
        /\ containerPanes = LeafSet(paneTree)
        /\ DoResizer(This, "resizerDown", onMouseDown(path, idx, 0, prevExtent, nextExtent))

ResizerMove ==
    \E client \in PointerPositions :
        /\ resizer.on
        /\ DoResizer(onMouseMove(This, resizer, client), "resizerMove",
                     [resizer EXCEPT !.moved = TRUE,
                                     !.newPrev = resizedExtents(resizer, client).newPrev,
                                     !.newNext = resizedExtents(resizer, client).newNext])

ResizerUp ==
    /\ resizer.on
    /\ DoResizer(onMouseUp(This), "resizerUp", NoResizer)

(* the constructor ends with bindControls, which calls renderTabs and      *)
(* updatePaneVisibility                                                    *)
Constructed(maxEditors, maxPaneIds) ==
    /\ \E m \in BOOLEAN : StateIs(updatePaneVisibility(Blank(m)))
    /\ snapshotTree = NullTree
    /\ scope = [editors |-> maxEditors, panes |-> maxPaneIds]
    /\ closeRequest = NoRequest
    /\ resizer = NoResizer
    /\ sessionStore = NoStore
    /\ dropEvent = NoEvent
    /\ hist = [op |-> "init", ed |-> 0, pane |-> 0, dir |-> "none", target |-> 0,
               from |-> 0, layouts |-> 0, persists |-> 0, collapsed |-> FALSE,
               restored |-> FALSE]

Init == Constructed(MaxEditors, MaxEnginePaneIds)

Next ==
    \/ AddTab
    \/ AddSplit
    \/ TabClick
    \/ TabClose
    \/ Resize
    \/ TabDragStart
    \/ TabDragEnd
    \/ PaneDrop
    \/ ContainerDrop
    \/ TabDrop
    \/ TabsAreaDrop

Spec == Init /\ [][Next]_vars

(* ---------------- the specification of the resizers ------------------- *)
(* while a resizer is dragged the pointer is held down on it, so no tab is *)
(* clicked and no button is pressed                                        *)
MaxResizerEditors == 3

MaxResizerPaneIds == 3

InitResizer == Constructed(MaxResizerEditors, MaxResizerPaneIds)

NextResizer ==
    \/ ~resizer.on /\ AddTab
    \/ ~resizer.on /\ AddSplit
    \/ ~resizer.on /\ TabClose
    \/ ResizerDown
    \/ ResizerMove
    \/ ResizerUp

SpecResizer == InitResizer /\ [][NextResizer]_vars

(* ---------------- the specification of persistence -------------------- *)
(* a window of desktop width that is not resized *)
MaxPersistEditors == 3

MaxPersistPaneIds == 3

InitPersist == Constructed(MaxPersistEditors, MaxPersistPaneIds) /\ ~mobile

NextPersist ==
    \/ StoreAddTab
    \/ StoreAddSplit
    \/ StoreTabClose
    \/ EditorChange
    \/ StoreWrite

SpecPersist == InitPersist /\ [][NextPersist]_vars

(* ------- the resizers of a loaded split of three children -------------- *)
(* a stored record whose tree is one split of three panes, a unit in each; *)
(* the sizes are relative weights and need not sum to 1                    *)
Third == <<1, 3>>

WideSizes == {<<Third, Third, Third>>, <<<<1, 4>>, <<1, 4>>, Half>>}

WideSnapshots ==
    {[isArray |-> TRUE,
      editors |-> <<[id |-> -1, paneId |-> -1], [id |-> -2, paneId |-> -2],
                    [id |-> -3, paneId |-> -3]>>,
      tree |-> [type |-> "split", dir |-> dir,
                children |-> <<Leaf(-1), Leaf(-2), Leaf(-3)>>, sizes |-> sizes],
      activePaneId |-> -1, activeId |-> -1] : dir \in {"col"}, sizes \in WideSizes}

LoadWideSnapshot ==
    \E snapshot \in WideSnapshots :
        /\ draggedEditor = 0
        /\ ~resizer.on
        /\ Do(applySnapshot(This, snapshot, TRUE), "load", 0, 0, "none")

MaxWideResizerEditors == 3

MaxWideResizerPaneIds == 1

InitResizerWide == Constructed(MaxWideResizerEditors, MaxWideResizerPaneIds)

NextResizerWide ==
    \/ LoadWideSnapshot
    \/ ~resizer.on /\ TabClose
    \/ ResizerDown
    \/ ResizerMove
    \/ ResizerUp

SpecResizerWide == InitResizerWide /\ [][NextResizerWide]_vars

(* ---------- the wide specification: fewer units, more panes ------------ *)
(* pane ids enough for a split made in mobile mode, the restore of the     *)
(* desktop layout and a split after it                                     *)
MaxWideEditors == 2

MaxWidePaneIds == 5

InitWide == Constructed(MaxWideEditors, MaxWidePaneIds)

\* the events of Spec without the drops on tabs
NextWide ==
    \/ AddTab
    \/ AddSplit
    \/ TabClick
    \/ TabClose
    \/ Resize
    \/ TabDragStart
    \/ TabDragEnd
    \/ PaneDrop
    \/ ContainerDrop

SpecWide == InitWide /\ [][NextWide]_vars

(* ------------- the drag specification: drops with dragover ------------- *)
(* The events of Spec together with the dragover and dragleave events that *)
(* set and clear the drop hints; the window is resized between drags only. *)
MaxDragEditors == 2

MaxDragPaneIds == 2

IdleResize ==
    /\ draggedEditor = 0
    /\ Resize

InitDrag == Constructed(MaxDragEditors, MaxDragPaneIds)

NextDrag ==
    \/ AddTab
    \/ AddSplit
    \/ TabClick
    \/ TabClose
    \/ IdleResize
    \/ TabDragStart
    \/ TabDragEnd
    \/ PaneDrop
    \/ ContainerDrop
    \/ TabDrop
    \/ TabsAreaDrop
    \/ ContainerDragOver
    \/ PaneDragOver
    \/ TabDragOver
    \/ TabsAreaDragOver
    \/ DragLeave

SpecDrag == InitDrag /\ [][NextDrag]_vars

(* ----------- the load specification: stored records are loaded --------- *)
MaxLoadEditors == 3

MaxLoadPaneIds == 2

InitLoad == Constructed(MaxLoadEditors, MaxLoadPaneIds)

NextLoad ==
    \/ AddTab
    \/ AddSplit
    \/ TabClick
    \/ TabClose
    \/ Resize
    \/ LoadSnapshot

SpecLoad == InitLoad /\ [][NextLoad]_vars

(* ------- the close specification: closing a tab awaits a confirmation -- *)
MaxCloseEditors == 2

MaxClosePaneIds == 2

InitClose == Constructed(MaxCloseEditors, MaxClosePaneIds)

NextClose ==
    \/ AddTab
    \/ AddSplit
    \/ TabClick
    \/ Resize
    \/ TabDragStart
    \/ TabDragEnd
    \/ PaneDrop
    \/ TabCloseRequest
    \/ TabCloseConfirm

SpecClose == InitClose /\ [][NextClose]_vars

(* ---- the reload specification: the page's own record is loaded -------- *)
MaxReloadEditors == 4

MaxReloadPaneIds == 2

InitReload == Constructed(MaxReloadEditors, MaxReloadPaneIds)

NextReload ==
    \/ AddTab
    \/ AddSplit
    \/ TabClick
    \/ TabClose
    \/ Resize
    \/ ReloadSnapshot

SpecReload == InitReload /\ [][NextReload]_vars

(* ============================ claims =================================== *)

(* C1 - Leaf uniqueness: starting from the empty tree, after any sequence  *)
(* of ensureTree, splitPane (each creating a fresh pane id) and removeLeaf *)
(* calls, no leaf id occurs more than once in the pane tree.               *)
C1_LeafUniqueness ==
    \A i, j \in 1..Len(LeafIds(paneTree)) :
        i # j => LeafIds(paneTree)[i] # LeafIds(paneTree)[j]

C1_Witness ==
    /\ hist.op = "removeLeaf"
    /\ hist.arg \in LeafSet(hist.pre)
    /\ Len(LeafIds(hist.pre)) = 3
    /\ Len(LeafIds(paneTree)) = 2

(* C2 - No degenerate splits: in every tree reachable by splitPane and     *)
(* removeLeaf, every split node has at least 2 children and as many sizes  *)
(* as children.                                                            *)
C2_NoDegenerateSplits ==
    \A p \in SplitPaths(paneTree) :
        /\ Len(NodeAt(paneTree, p).children) >= 2
        /\ Len(NodeAt(paneTree, p).sizes) = Len(NodeAt(paneTree, p).children)

C2_Witness ==
    /\ hist.op = "removeLeaf"
    /\ hist.arg \in LeafSet(hist.pre)
    /\ Cardinality(SplitPaths(hist.pre)) = 2
    /\ Cardinality(SplitPaths(paneTree)) = 1

(* C3 - Split/remove inverse: splitPane(L, D) returning the new leaf L2,   *)
(* followed by removeLeaf(L2), yields the tree as it was before the split. *)
C3_SplitRemoveInverse ==
    (/\ hist.op = "removeLeaf"
     /\ hist.prev.op = "splitPane"
     /\ hist.prev.ret # 0
     /\ hist.arg = hist.prev.ret)
    => paneTree = hist.prev.pre

C3_Witness ==
    /\ hist.op = "removeLeaf"
    /\ hist.prev.op = "splitPane"
    /\ hist.prev.ret # 0
    /\ hist.arg = hist.prev.ret
    /\ hist.prev.pre.type = "split"
    /\ paneTree = hist.prev.pre

(* C4 - splitPane on an existing leaf replaces that leaf, at the same      *)
(* position, by a split with two children and sizes [0.5, 0.5]; the        *)
(* direction is col for left/right and row for top/bottom; the new leaf is *)
(* first for left/top and second for right/bottom; the returned id is the  *)
(* new leaf's id and the rest of the tree is unchanged.                    *)
C4_ExpectedSplit(old, new, direction) ==
    [type |-> "split",
     dir |-> IF direction \in {"left", "right"} THEN "col" ELSE "row",
     children |-> IF direction \in {"left", "top"}
                  THEN <<Leaf(new), Leaf(old)>> ELSE <<Leaf(old), Leaf(new)>>,
     sizes |-> <<Half, Half>>]

C4_SplitPaneShape ==
    (hist.op = "splitPane" /\ hist.arg \in LeafSet(hist.pre))
    => /\ hist.ret # 0
       /\ hist.ret \notin LeafSet(hist.pre)
       /\ \E p \in AllPaths(hist.pre) :
              /\ NodeAt(hist.pre, p) = Leaf(hist.arg)
              /\ NodeAt(paneTree, p) = C4_ExpectedSplit(hist.arg, hist.ret, hist.dir)
              /\ ReplaceAt(paneTree, p, Leaf(hist.arg)) = hist.pre

C4_Witness ==
    /\ hist.op = "splitPane"
    /\ hist.arg \in LeafSet(hist.pre)
    /\ hist.pre.type = "split"
    /\ hist.dir = "top"
    /\ hist.ret \in LeafSet(paneTree)

(* C5 - removeLeaf of a leaf whose parent split has exactly two children   *)
(* replaces the parent by the remaining sibling at the parent's position   *)
(* (or makes the sibling the root); everything else is unchanged and no    *)
(* split with a single child remains.                                      *)
C5_RemoveLeafCollapse ==
    hist.op = "removeLeaf"
    => \A p \in AllPaths(hist.pre) :
           (/\ p # <<>>
            /\ NodeAt(hist.pre, p) = Leaf(hist.arg)
            /\ Len(NodeAt(hist.pre, Front(p)).children) = 2)
           => /\ paneTree = ReplaceAt(hist.pre, Front(p),
                                      NodeAt(hist.pre, Front(p)).children[3 - Last(p)])
              /\ \A q \in SplitPaths(paneTree) : Len(NodeAt(paneTree, q).children) # 1

C5_Witness ==
    /\ hist.op = "removeLeaf"
    /\ \E p \in AllPaths(hist.pre) :
           /\ Len(p) = 2
           /\ NodeAt(hist.pre, p) = Leaf(hist.arg)
           /\ NodeAt(paneTree, Front(p)).type = "leaf"
    /\ paneTree.type = "split"

(* C6 (as stated) - splitPane with an id that is not in the tree returns   *)
(* null and leaves the tree and the active pane id as they were, for every *)
(* tree including the empty tree; removeLeaf with an absent id changes     *)
(* nothing.                                                                *)
C6_AbsentIdNoOp ==
    (hist.op \in {"splitPane", "removeLeaf"} /\ hist.arg \notin LeafSet(hist.pre))
    => /\ hist.ret = 0
       /\ paneTree = hist.pre
       /\ activePaneId = hist.preActive

(* C6 (amended) - splitPane with an id that is not in the tree returns     *)
(* null; a non-null tree is left as it was, and so is the active pane id   *)
(* when it was set (an unset one becomes the first leaf); on the empty     *)
(* tree ensureTree first creates a single fresh leaf and makes it the      *)
(* active pane.  removeLeaf with an absent id changes nothing.             *)
C6_AbsentIdAmended ==
    /\ (hist.op = "removeLeaf" /\ hist.arg \notin LeafSet(hist.pre))
       => /\ paneTree = hist.pre
          /\ activePaneId = hist.preActive
    /\ (hist.op = "splitPane" /\ hist.arg \notin LeafSet(hist.pre))
       => /\ hist.ret = 0
          /\ IF hist.pre = NullTree
             THEN /\ paneTree = Leaf(hist.preNext)
                  /\ activePaneId = hist.preNext
             ELSE /\ paneTree = hist.pre
                  /\ activePaneId = IF hist.preActive # 0 THEN hist.preActive
                                    ELSE IdOf(getFirstLeaf(hist.pre))

C6_Witness ==
    /\ hist.op = "splitPane"
    /\ hist.arg # 0
    /\ hist.arg \notin LeafSet(hist.pre)
    /\ hist.pre.type = "split"
    /\ hist.ret = 0

(* C7 - Removing the leaf that is the root makes the tree null; a          *)
(* following ensureTree creates a tree of exactly one fresh leaf and makes *)
(* it the active pane whatever the active pane id was; ensureTree on a     *)
(* non-null tree never changes the tree.                                   *)
C7_RootRemovalAndEnsure ==
    /\ (hist.op = "removeLeaf" /\ hist.pre = Leaf(hist.arg)) => paneTree = NullTree
    /\ (hist.op = "ensureTree" /\ hist.pre = NullTree)
       => /\ paneTree.type = "leaf"
          /\ paneTree.id \notin 0..(hist.preNext - 1)
          /\ activePaneId = paneTree.id
    /\ (hist.op = "ensureTree" /\ hist.pre # NullTree) => paneTree = hist.pre

C7_Witness ==
    /\ hist.op = "ensureTree"
    /\ hist.prev.op = "removeLeaf"
    /\ hist.pre = NullTree
    /\ hist.preActive # 0
    /\ activePaneId # hist.preActive

(* the data-model invariant of a tree: unique leaf ids, every split with   *)
(* at least 2 children and as many sizes as children                       *)
WellFormed(tree) ==
    /\ \A i, j \in 1..Len(LeafIds(tree)) : i # j => LeafIds(tree)[i] # LeafIds(tree)[j]
    /\ \A p \in SplitPaths(tree) :
           /\ Len(NodeAt(tree, p).children) >= 2
           /\ Len(NodeAt(tree, p).sizes) = Len(NodeAt(tree, p).children)

(* C8 - removeLeaf keeps children and sizes in step: for a tree satisfying *)
(* the data-model invariant, splits with three or more children included,  *)
(* removing an existing leaf deletes its entry from its parent's children  *)
(* and from its parent's sizes, so every split has as many sizes as        *)
(* children after the removal.                                             *)
C8_RemoveKeepsSizesInStep ==
    (/\ hist.op = "removeLeaf"
     /\ WellFormed(hist.pre)
     /\ hist.arg \in LeafSet(hist.pre))
    => \A p \in SplitPaths(paneTree) :
           Len(NodeAt(paneTree, p).sizes) = Len(NodeAt(paneTree, p).children)

(* C9 - normalizeTree coerces any deserialized tree to a valid shape: at   *)
(* every split of the result the direction is row or col, there are at     *)
(* least 2 children, and there are as many sizes as children.              *)
C9_NormalizeValidShape ==
    hist.op = "normalizeTree"
    => \A p \in SplitPaths(paneTree) :
           /\ NodeAt(paneTree, p).dir \in {"row", "col"}
           /\ Len(NodeAt(paneTree, p).children) >= 2
           /\ Len(NodeAt(paneTree, p).sizes) = Len(NodeAt(paneTree, p).children)

(* C10 - Center drop onto another pane: when the dragged unit U, in pane   *)
(* P2, is dropped on the center of a different pane P1, U becomes assigned *)
(* to P1; if P2 then holds no unit, leaf P2 is removed from the tree and a *)
(* parent left with one child is collapsed; the other units keep their     *)
(* panes.                                                                  *)
C10_IsCenterDrop ==
    /\ hist'.op = "paneDrop"
    /\ hist'.dir = "center"
    /\ draggedEditor # 0
    /\ hist'.pane # edPane[draggedEditor]

C10_CenterDropMoves ==
    [][C10_IsCenterDrop =>
        LET U == draggedEditor
            P1 == hist'.pane
            P2 == edPane[draggedEditor]
        IN /\ edPane'[U] = P1
           /\ (\A ed \in Range(editors') : edPane'[ed] # P2)
              => /\ P2 \notin LeafSet(paneTree')
                 /\ \A p \in SplitPaths(paneTree') : Len(NodeAt(paneTree', p).children) >= 2
           /\ \A ed \in Range(editors) \ {U} : edPane'[ed] = edPane[ed]
           /\ editors' = editors]_vars

C10_Witness ==
    /\ hist.op = "paneDrop"
    /\ hist.dir = "center"
    /\ hist.from # 0
    /\ hist.from # hist.pane
    /\ edPane[hist.ed] = hist.pane
    /\ Len(getPaneEditors(This, hist.pane)) = 2
    /\ hist.from \notin LeafSet(paneTree)
    /\ paneTree = Leaf(hist.pane)

(* C11 - Edge drop: when the dragged unit U is dropped on the left,       *)
(* right, top or bottom band of a pane or of the container, splitPane is   *)
(* applied to the target leaf in that direction, U ends up assigned to the *)
(* newly created leaf, which is a leaf of the tree, the active pane id     *)
(* becomes the new leaf, and U's previous pane P is removed from the tree  *)
(* if and only if it holds no unit any more.  Stated here without the      *)
(* place of the new leaf: U is assigned to a pane N that was not a leaf    *)
(* before and is one now, N is the active pane, and P is a leaf afterwards *)
(* exactly when it still holds a unit.                                     *)
EdgeDirections == DropDirections \ {"center"}

C11_IsEdgeDrop ==
    /\ hist'.op \in {"paneDrop", "containerDrop"}
    /\ hist'.dir \in EdgeDirections
    /\ draggedEditor # 0

C11_EdgeDropNewLeaf ==
    [][C11_IsEdgeDrop =>
        LET U == draggedEditor
            P == edPane[U]
            emptied == \A ed \in Range(editors) \ {U} : edPane[ed] # P
        IN /\ edPane'[U] \in LeafSet(paneTree') \ LeafSet(paneTree)
           /\ activePaneId' = edPane'[U]
           /\ (P \notin LeafSet(paneTree')) <=> emptied]_vars

(* C12 - Tab-relative drop: dropping the dragged unit U on the before or   *)
(* after side of the tab of a different unit T places U immediately before *)
(* (immediately after) T in the tab order of T's pane; U is first assigned *)
(* to T's pane when it came from another pane; the relative order of all   *)
(* other units is unchanged and U appears exactly once.                    *)
C12_IsTabDrop ==
    /\ hist'.op \in {"tabDrop", "tabsAreaDrop"}
    /\ draggedEditor # 0
    /\ hist'.target \notin {0, draggedEditor}

C12_TabDropPlaces ==
    [][C12_IsTabDrop =>
        LET U == draggedEditor
            T == hist'.target
            tabs == getPaneEditors([editors |-> editors', edPane |-> edPane'], edPane'[T])
            iU == IndexOf(tabs, U)
            iT == IndexOf(tabs, T)
            notU(ed) == ed # U
        IN /\ edPane'[U] = edPane[T]
           /\ edPane'[T] = edPane[T]
           /\ iU # 0 /\ iT # 0
           /\ iU = IF hist'.dir = "before" THEN iT - 1 ELSE iT + 1
           /\ SelectSeq(editors', notU) = SelectSeq(editors, notU)
           /\ Cardinality({i \in 1..Len(editors') : editors'[i] = U}) = 1]_vars

(* a unit of another pane was dropped before a tab that is not the first   *)
(* of its pane                                                             *)
C12_Witness ==
    /\ hist.op = "tabDrop"
    /\ hist.dir = "before"
    /\ hist.ed # hist.target
    /\ hist.from # hist.pane
    /\ edPane[hist.ed] = hist.pane
    /\ edPane[hist.target] = hist.pane
    /\ IndexOf(getPaneEditors(This, hist.pane), hist.ed) = 2
    /\ IndexOf(getPaneEditors(This, hist.pane), hist.target) = 3

(* C13 - A center drop that moves a unit into another pane appends it to  *)
(* that pane's tab order: after the drop the moved unit is the last unit   *)
(* in the target pane's tab order, for every prior ordering of the unit    *)
(* list.                                                                   *)
C13_CenterDropAppends ==
    [][C10_IsCenterDrop =>
        LET tabs == getPaneEditors([editors |-> editors', edPane |-> edPane'], hist'.pane)
        IN tabs # <<>> /\ tabs[Len(tabs)] = draggedEditor]_vars

(* C14 - Self-drop is a no-op: dropping the dragged unit onto its own tab, *)
(* when it is the only tab of its pane, leaves the tree, every unit's pane *)
(* assignment and the order of the unit list unchanged.                    *)
C14_IsSelfDrop ==
    /\ hist'.op = "tabDrop"
    /\ draggedEditor # 0
    /\ hist'.target = draggedEditor
    /\ getPaneEditors(This, edPane[draggedEditor]) = <<draggedEditor>>

C14_SelfDropNoOp ==
    [][C14_IsSelfDrop =>
        /\ paneTree' = paneTree
        /\ \A ed \in Range(editors) : edPane'[ed] = edPane[ed]
        /\ editors' = editors]_vars

(* C15 - Drag session lifecycle: the session is idle (no dragged unit)     *)
(* until a tab drag-start, which records the dragged unit and the          *)
(* currently active unit as anchor; after any drop handler (pane,          *)
(* container, tab, tab area) or drag-end has run, the session is idle      *)
(* again with dragged unit, anchor, tab-insertion target and container and *)
(* pane hints all cleared, for every order of dragover, drop and drag-end. *)
DropOps == {"paneDrop", "containerDrop", "tabDrop", "tabsAreaDrop"}

C15_IdleAndClear ==
    /\ draggedEditor = 0
    /\ dragAnchorEditor = 0
    /\ tabDropTarget = NoTarget
    /\ containerDropHint = NoDir
    /\ paneHints = {}

C15_DragLifecycle ==
    [][/\ hist'.op = "dragStart"
          => /\ draggedEditor = 0
             /\ draggedEditor' = hist'.ed
             /\ dragAnchorEditor' = activeEditor
       /\ (draggedEditor = 0 /\ hist'.op # "dragStart") => draggedEditor' = 0
       /\ (draggedEditor # 0 /\ hist'.op \in DropOps \cup {"dragEnd"}) => C15_IdleAndClear']_vars

(* C16 - After every drop that changes the tree, a unit's pane assignment *)
(* or a pane's tab order, the active unit is the dragged unit, a full      *)
(* layout re-render (syncLayout) has been performed, and a persistence     *)
(* request (persistPage) has been issued.  A re-render that has been       *)
(* performed shows in its result: the panes attached and hidden after the  *)
(* drop are those a forced syncLayout leaves (syncLayout is idempotent).   *)
C16_IsMutatingDrop ==
    /\ hist'.op \in DropOps
    /\ draggedEditor # 0
    /\ paneTree' # paneTree \/ edPane' # edPane \/ editors' # editors

C16_DropRefreshes ==
    [][C16_IsMutatingDrop =>
        /\ activeEditor' = draggedEditor
        /\ [syncLayout(This', TRUE) EXCEPT !.layouts = 0, !.ret = 0] = This'
        /\ hist'.persists >= 1]_vars

(* C17 - During a drag at most one target carries drop-hint feedback at   *)
(* any time: never a pane and the container together, and never two panes, *)
(* for every sequence of dragover events on panes and on the container (a  *)
(* pane dragover is also delivered to the container's dragover handler).   *)
C17_OneHintedTarget ==
    draggedEditor # 0
    => Cardinality({h.pane : h \in paneHints})
       + (IF containerDropHint # NoDir THEN 1 ELSE 0) <= 1

(* C18 - Mobile collapse/restore round trip: for every desktop tree and   *)
(* unit-to-pane assignment, a render in mobile mode followed, with no unit *)
(* added or closed in between, by a render in desktop mode restores a tree *)
(* with the same shape, leaf ids, directions and sizes as before the       *)
(* collapse, and every unit is assigned to the pane id it had before the   *)
(* collapse.                                                               *)
C18_RoundTrip ==
    [][/\ (hist'.op = "resize" /\ hist'.collapsed)
          => desktopLayoutBackup' =
                 [set |-> TRUE, tree |-> paneTree, activePaneId |-> activePaneId,
                  editorPaneMap |-> [ed \in Range(editors) |-> edPane[ed]]]
       /\ (hist.op = "resize" /\ hist.collapsed /\ hist'.op = "resize" /\ ~mobile')
          => /\ paneTree' = desktopLayoutBackup.tree
             /\ \A ed \in Range(editors) :
                    edPane'[ed] = desktopLayoutBackup.editorPaneMap[ed]]_vars

(***************************************************************************)
(* C19 - While the viewport is in mobile mode, after every completed       *)
(* operation (render, add tab, add split, any drop, close) the live tree   *)
(* is a single leaf and every unit is assigned to that leaf's pane.        *)
(***************************************************************************)
C19_MobileSingleLeaf ==
    mobile =>
        /\ paneTree.type = "leaf"
        /\ \A ed \in Range(editors) : edPane[ed] = paneTree.id

(***************************************************************************)
(* C20 - The desktop backup is taken exactly once per collapse: an         *)
(* operation on a collapsed layout that leaves it collapsed (a mobile      *)
(* render among them) does not change the backup; the backup slot is       *)
(* filled exactly while the layout is collapsed, so after a restore it is  *)
(* empty and the collapsed flag is false; a desktop render of a layout     *)
(* that is not collapsed changes neither the tree, nor the active pane,    *)
(* nor a unit's pane; and the backup a resize into mobile mode stores is   *)
(* the tree, the active pane and the pane of every unit as they were when  *)
(* mobile mode was entered, which is therefore what a restore reads.       *)
(***************************************************************************)
C20_LayoutNow ==
    [set |-> TRUE, tree |-> paneTree, activePaneId |-> activePaneId,
     editorPaneMap |-> [k \in {sessionId[ed] : ed \in Range(editors)} |->
                           edPane[CHOOSE ed \in Range(editors) : sessionId[ed] = k]]]

C20_BackupOncePerCollapse ==
    [][/\ (isMobileCollapsed /\ isMobileCollapsed')
          => desktopLayoutBackup' = desktopLayoutBackup
       /\ isMobileCollapsed' <=> desktopLayoutBackup'.set
       /\ hist'.restored => (hist'.op = "resize" /\ ~mobile')
       /\ (~isMobileCollapsed /\ hist'.op = "resize" /\ ~mobile')
          => (paneTree' = paneTree /\ activePaneId' = activePaneId /\ edPane' = edPane)
       /\ (hist'.op = "resize" /\ hist'.collapsed)
          => desktopLayoutBackup' = C20_LayoutNow]_vars

\* a split layout has been restored from the backup
C20_Witness ==
    /\ hist.restored
    /\ paneTree.type = "split"
    /\ editors # <<>>
    /\ ~isMobileCollapsed
    /\ ~desktopLayoutBackup.set

(***************************************************************************)
(* C21 - On restore from mobile collapse, each live unit is assigned to    *)
(* the pane id recorded for it in the backup map only if that pane id is a *)
(* leaf of the restored tree; every other unit (no record, or a recorded   *)
(* pane that is not in the restored tree) is assigned to the current       *)
(* active pane (the active pane of the backup or the active pane after the *)
(* restore); hence after restore every unit is in a pane that is a leaf of *)
(* the tree.                                                               *)
(***************************************************************************)
C21_Recorded(ed) ==
    IF sessionId[ed] \in DOMAIN desktopLayoutBackup.editorPaneMap
    THEN desktopLayoutBackup.editorPaneMap[sessionId[ed]] ELSE 0

C21_RestoreAssigns ==
    [][hist'.restored =>
          \A ed \in Range(editors') :
              /\ edPane'[ed] \in LeafSet(paneTree')
              /\ IF C21_Recorded(ed) \in LeafSet(paneTree')
                 THEN edPane'[ed] = C21_Recorded(ed)
                 ELSE edPane'[ed] \in {activePaneId', desktopLayoutBackup.activePaneId}]_vars

(***************************************************************************)
(* C22 - While a tab drag is in progress (a dragged unit is recorded), a   *)
(* window resize event changes neither the tree nor any unit's pane        *)
(* assignment and causes no re-render.                                     *)
(***************************************************************************)
C22_ResizeDeferred ==
    [][(draggedEditor # 0 /\ hist'.op = "resize") =>
          /\ paneTree' = paneTree
          /\ \A ed \in Range(editors) : edPane'[ed] = edPane[ed]
          /\ hist'.layouts = 0]_vars

(***************************************************************************)
(* C23 - A tab close request changes nothing until the host confirmation   *)
(* resolves: the click leaves the tree, the unit list and the active unit  *)
(* unchanged; if the confirmation resolves false, they are unchanged; if   *)
(* it resolves true, exactly the requested unit is removed from the unit   *)
(* list (from whatever pane it is in at that moment), whatever other       *)
(* operations ran between the request and the confirmation.                *)
(***************************************************************************)
C23_Untouched ==
    /\ paneTree' = paneTree
    /\ editors' = editors
    /\ activeEditor' = activeEditor
    /\ \A ed \in Range(editors) : edPane'[ed] = edPane[ed]

C23_CloseAwaitsConfirm ==
    [][/\ hist'.op = "closeRequest" => C23_Untouched
       /\ (hist'.op = "closeConfirm" /\ hist'.dir = "cancel") => C23_Untouched
       /\ (hist'.op = "closeConfirm" /\ hist'.dir = "ok")
          => editors' = SelectSeq(editors, LAMBDA ed : ed # closeRequest.ed)]_vars

\* a unit was closed on confirmation after it had been moved to another pane
C23_Witness ==
    /\ hist.op = "closeConfirm"
    /\ hist.dir = "ok"
    /\ hist.ed \notin Range(editors)
    /\ hist.from # hist.pane
    /\ editors # <<>>
    /\ ~mobile

(***************************************************************************)
(* C24 - After every completed operation that renders, each pane that      *)
(* holds at least one unit shows exactly one unit: the active unit if it   *)
(* is assigned to that pane, otherwise the first unit of that pane in tab  *)
(* order; all other units of the pane are hidden.                          *)
(***************************************************************************)
C24_OneShownPerPane ==
    \A pane \in {edPane[ed] : ed \in Range(editors)} :
        LET tabs == getPaneEditors(This, pane)
            shown == IF activeEditor \in Range(tabs) THEN activeEditor ELSE tabs[1]
        IN \A ed \in Range(tabs) : (ed \in hiddenHosts) <=> (ed # shown)

(***************************************************************************)
(* C25 - Whenever a unit is closed (removePane) or moved away              *)
(* (moveEditorToPane, by a drop) and its former pane is left with no unit, *)
(* that pane's leaf is removed from the tree within the same operation,    *)
(* and no split is left with a single child; a pane of the tree that still *)
(* holds a unit is never removed.                                          *)
(***************************************************************************)
C25_IsCloseOrMove ==
    /\ hist'.op \in {"tabClose"} \cup DropOps
    /\ hist'.ed # 0

\* one call of moveEditorToPane, from the current state
C25_MoveRemovesEmptied(ed, targetPane) ==
    LET r == moveEditorToPane(This, ed, targetPane)
        P == edPane[ed]
        holds(pane) == \E e \in Range(r.editors) : r.edPane[e] = pane
    IN /\ (P # targetPane /\ ~holds(P)) => P \notin LeafSet(r.paneTree)
       /\ \A Q \in LeafSet(paneTree) : holds(Q) => Q \in LeafSet(r.paneTree)

C25_EmptyPaneRemoved ==
    [][/\ \A ed \in Range(editors), targetPane \in LeafSet(paneTree) \cup paneDom :
              C25_MoveRemovesEmptied(ed, targetPane)
       /\ C25_IsCloseOrMove =>
              LET U == hist'.ed
                  P == edPane[U]
                  left == U \notin Range(editors') \/ edPane'[U] # P
                  holds(pane) == \E ed \in Range(editors') : edPane'[ed] = pane
              IN /\ (left /\ ~holds(P)) => P \notin LeafSet(paneTree')
                 /\ \A p \in SplitPaths(paneTree') :
                        Len(NodeAt(paneTree', p).children) >= 2
                 /\ \A Q \in LeafSet(paneTree) : holds(Q) => Q \in LeafSet(paneTree')]_vars

\* a drop has moved the only unit of a pane away and the split above it is gone
C25_Witness ==
    /\ hist.op \in DropOps
    /\ hist.ed \in Range(editors)
    /\ hist.from # edPane[hist.ed]
    /\ hist.from \notin LeafSet(paneTree)
    /\ hist.from \notin {edPane[ed] : ed \in Range(editors)}
    /\ paneTree.type = "leaf"
    /\ Len(editors) >= 2
    /\ ~mobile

(***************************************************************************)
(* C26  Snapshot round trip.  In desktop mode, loading the record that     *)
(* getSnapshot has just taken, with replace, gives a state with the same   *)
(* tree, the same active pane id, the same unit ids in the same order,     *)
(* each unit in the same pane, and the same active unit.                   *)
(***************************************************************************)
C26_SameUnits ==
    /\ Len(editors') = Len(editors)
    /\ \A i \in 1..Len(editors) :
          /\ i \in DOMAIN editors'
          /\ sessionId'[editors'[i]] = sessionId[editors[i]]
          /\ edPane'[editors'[i]] = edPane[editors[i]]

C26_SameActive ==
    IF activeEditor = 0 THEN activeEditor' = 0
    ELSE activeEditor' # 0 /\ sessionId'[activeEditor'] = sessionId[activeEditor]

C26_SnapshotRoundTrip ==
    [][(hist'.op = "reload" /\ ~mobile /\ ~isMobileCollapsed) =>
          /\ paneTree' = paneTree
          /\ activePaneId' = activePaneId
          /\ C26_SameUnits
          /\ C26_SameActive]_vars

(***************************************************************************)
(* C27  Resizer clamp.  For every pair of extents recorded at pointer-down *)
(* and every pointer position of a pointer-move, a drag to either extreme  *)
(* included, the extent computed for each of the two adjacent children is  *)
(* at least the minimum extent of 80 px.                                   *)
(***************************************************************************)
C27_ResizerClamp ==
    resizer.moved => (resizer.newPrev >= MinExtent /\ resizer.newNext >= MinExtent)

C27_Witness ==
    /\ hist.op = "resizerMove"
    /\ resizer.moved
    /\ resizer.prevStart + resizer.nextStart < 2 * MinExtent
    /\ resizer.newPrev = MinExtent
    /\ resizer.newNext = MinExtent

(***************************************************************************)
(* C28  A resizer drag between children i and i + 1 of a split writes only *)
(* sizes[i] and sizes[i + 1] of that split: every other size entry of the  *)
(* split, every other node and the structure of the tree are unchanged.    *)
(* On pointer-up the move and up listeners installed at pointer-down are   *)
(* removed and one persistence request is issued.                          *)
(***************************************************************************)
C28_WideNode ==
    [type |-> "split", dir |-> "col", children |-> <<Leaf(1), Leaf(2), Leaf(3)>>,
     sizes |-> <<<<1, 4>>, <<1, 4>>, Half>>]

C28_OnlyTwoEntries(old, new, i) ==
    /\ new = [old EXCEPT !.sizes = new.sizes]
    /\ Len(new.sizes) = Len(old.sizes)
    /\ \A j \in DOMAIN old.sizes \ {i, i + 1} : new.sizes[j] = old.sizes[j]

C28_ResizerFrame ==
    [][/\ \A i \in 1..2, a \in {80, 320}, b \in {80, 100} :
             C28_OnlyTwoEntries(C28_WideNode, writeSizes(C28_WideNode, i, a, b), i)
       /\ hist'.op = "resizerMove" =>
             /\ C28_OnlyTwoEntries(NodeAt(paneTree, resizer.path),
                                   NodeAt(paneTree', resizer.path), resizer.idx)
             /\ paneTree' = ReplaceAt(paneTree, resizer.path, NodeAt(paneTree', resizer.path))
             /\ resizer'.on
       /\ hist'.op = "resizerUp" =>
             /\ resizer.on
             /\ ~resizer'.on
             /\ hist'.persists = 1
             /\ paneTree' = paneTree]_vars

C28_Witness ==
    /\ hist.op = "resizerUp"
    /\ hist.persists = 1
    /\ ~resizer.on
    /\ \E p, q \in SplitPaths(paneTree) :
          /\ p # q
          /\ NodeAt(paneTree, p).sizes \notin {<<Half, Half>>}
          /\ NodeAt(paneTree, q).sizes = <<Half, Half>>

C30_ActivePaneIsLeaf ==
    (hist.op # "init" /\ paneTree.type # "null") => activePaneId \in LeafSet(paneTree)

(***************************************************************************)
(* C31  After every completed operation, every unit of the unit list is    *)
(* assigned to a pane whose id is a leaf of the current tree, so that      *)
(* getPaneList reaches it; in particular a unit added with addEditorPane   *)
(* after other units were closed, moved, collapsed or restored.            *)
(***************************************************************************)
C31_UnitsInLeaves ==
    hist.op # "init" => \A ed \in Range(editors) : edPane[ed] \in LeafSet(paneTree)

(***************************************************************************)
(* C32  In desktop mode, after every completed operation and whenever the  *)
(* unit list is non-empty, every leaf of the tree holds at least one unit, *)
(* also after units were closed in mobile mode and the layout restored.    *)
(***************************************************************************)
C32_NoEmptyLeaf ==
    (hist.op # "init" /\ ~mobile /\ editors # <<>>) =>
        \A pane \in LeafSet(paneTree) : \E ed \in Range(editors) : edPane[ed] = pane

(***************************************************************************)
(* C33  After every completed operation with a non-null active unit, the   *)
(* active pane id equals the pane id of the active unit, also after a      *)
(* restore from the mobile collapse when the active unit was changed in    *)
(* mobile mode.                                                            *)
(***************************************************************************)
C33_ActivePaneOfActiveUnit ==
    (hist.op # "init" /\ activeEditor # 0) => activePaneId = edPane[activeEditor]

(***************************************************************************)
(* C34  Dropping a dragged unit on the center of the pane it already       *)
(* occupies changes neither the tree nor any unit's pane assignment,       *)
(* whichever unit was active when the drag started and however many other  *)
(* units and panes exist.                                                  *)
(***************************************************************************)
C34_IsOwnCenterDrop ==
    /\ hist'.op = "paneDrop"
    /\ hist'.dir = "center"
    /\ draggedEditor # 0
    /\ hist'.pane = edPane[draggedEditor]

C34_OwnCenterDropNoOp ==
    [][C34_IsOwnCenterDrop =>
        /\ paneTree' = paneTree
        /\ \A ed \in Range(editors) : edPane'[ed] = edPane[ed]]_vars

(***************************************************************************)
(* C35  Dropping a dragged unit onto its own tab, in a pane that holds     *)
(* several tabs, leaves that pane's tab order and the order of the unit    *)
(* list unchanged, for either side (before, after) of the tab.             *)
(***************************************************************************)
C35_IsOwnTabDrop ==
    /\ hist'.op = "tabDrop"
    /\ draggedEditor # 0
    /\ hist'.target = draggedEditor
    /\ Len(getPaneEditors(This, edPane[draggedEditor])) > 1

C35_OwnTabDropKeepsOrder ==
    [][C35_IsOwnTabDrop =>
        /\ editors' = editors
        /\ getPaneEditors([editors |-> editors', edPane |-> edPane'], edPane[draggedEditor])
              = getPaneEditors(This, edPane[draggedEditor])]_vars

(* C36: every record written to the session store describes the layout as *)
(* it was when persistPage was called: the tree of the record is the tree  *)
(* of that moment, untouched by the operations between the call and the    *)
(* write, and the paneId of every unit of the record is a leaf of the tree *)
(* of the record.                                                          *)
C36_WrittenAsCalled ==
    \A i \in 1..Len(sessionStore.written) :
        LET rec == sessionStore.written[i]
        IN /\ rec.tree = cloneTree(rec.treeAtCall)
           /\ \A j \in 1..Len(rec.editors) : rec.editors[j].paneId \in LeafSet(rec.tree)

(* C37 - Drag-and-drop never creates, loses or duplicates a unit: over     *)
(* every drop (on a pane's centre or edge, on the container, on a tab, on  *)
(* a tab strip) and every drag-end, the set of units of the unit list is   *)
(* the same before and after, each unit occurs once in the list, and each  *)
(* unit is assigned to one pane.                                           *)
C37_IsDragOp == hist'.op \in DropOps \cup {"dragEnd"}

C37_UnitsPreserved ==
    [][C37_IsDragOp =>
        /\ Range(editors') = Range(editors)
        /\ Len(editors') = Len(editors)
        /\ Cardinality(Range(editors')) = Len(editors')
        /\ DOMAIN edPane' = DOMAIN edPane
        /\ \A ed \in Range(editors') : edPane'[ed] # 0]_vars

(* a unit dragged out of a pane it shared and dropped on a tab of another  *)
(* pane, all three units still listed                                      *)
C37_Witness ==
    /\ hist.op = "tabDrop"
    /\ hist.ed # 0
    /\ hist.target \notin {0, hist.ed}
    /\ hist.from # edPane[hist.ed]
    /\ Len(editors) = 3
    /\ Cardinality(Range(editors)) = 3

(* C38 - getDropDirection returns one intent for every pointer position    *)
(* inside a target rectangle: left when the horizontal ratio is below 1/4, *)
(* right when it is above 3/4, otherwise top when the vertical ratio is    *)
(* below 1/4, bottom when it is above 3/4, otherwise center; a position on *)
(* a 1/4 or 3/4 boundary belongs to the inner band, the corners resolve to *)
(* left or right, and a missing rectangle yields center.                   *)
C38_Asked == dropEvent.direction # "none"

C38_Inside ==
    /\ dropEvent.hasRect
    /\ dropEvent.left <= dropEvent.clientX
    /\ dropEvent.clientX <= dropEvent.left + dropEvent.width
    /\ dropEvent.top <= dropEvent.clientY
    /\ dropEvent.clientY <= dropEvent.top + dropEvent.height

\* the offsets of the pointer in the rectangle, and four times them
C38_X == dropEvent.clientX - dropEvent.left

C38_Y == dropEvent.clientY - dropEvent.top

C38_W == IF dropEvent.width >= 1 THEN dropEvent.width ELSE 1

C38_H == IF dropEvent.height >= 1 THEN dropEvent.height ELSE 1

C38_Bands ==
    IF 4 * C38_X < C38_W THEN dropEvent.direction = "left"
    ELSE IF 4 * C38_X > 3 * C38_W THEN dropEvent.direction = "right"
    ELSE IF 4 * C38_Y < C38_H THEN dropEvent.direction = "top"
    ELSE IF 4 * C38_Y > 3 * C38_H THEN dropEvent.direction = "bottom"
    ELSE dropEvent.direction = "center"

C38_Boundaries ==
    /\ 4 * C38_X \in {C38_W, 3 * C38_W} => dropEvent.direction \in {"top", "bottom", "center"}
    /\ (4 * C38_X \in {C38_W, 3 * C38_W} /\ 4 * C38_Y \in {C38_H, 3 * C38_H})
           => dropEvent.direction = "center"
    /\ (4 * C38_X > C38_W /\ 4 * C38_X < 3 * C38_W /\ 4 * C38_Y \in {C38_H, 3 * C38_H})
           => dropEvent.direction = "center"

C38_Corners ==
    (C38_X \in {0, dropEvent.width} /\ C38_Y \in {0, dropEvent.height} /\ dropEvent.width >= 2)
        => dropEvent.direction = IF C38_X = 0 THEN "left" ELSE "right"

C38_DropDirection ==
    C38_Asked =>
        /\ dropEvent.direction \in {"left", "right", "top", "bottom", "center"}
        /\ ~dropEvent.hasRect => dropEvent.direction = "center"
        /\ C38_Inside => (C38_Bands /\ C38_Boundaries /\ C38_Corners)

(* the pointer on the 1/4 boundary of the width and on the 3/4 boundary of *)
(* the height of a rectangle that is not at the origin: center             *)
C38_Witness ==
    /\ C38_Asked /\ C38_Inside
    /\ dropEvent.left > 0 /\ dropEvent.top > 0
    /\ 4 * C38_X = dropEvent.width /\ dropEvent.width > 0
    /\ 4 * C38_Y = 3 * dropEvent.height /\ dropEvent.height > 0
    /\ dropEvent.direction = "center"

(* C39 - Degenerate geometry: for every pair of starting extents recorded  *)
(* at pointer-down, pairs whose total is below twice the minimum extent    *)
(* included, the two pixel extents the resizer computes on a pointer-move  *)
(* sum to the total of the two starting extents.                           *)
C39_ExtentsKeepTotal ==
    resizer.moved => resizer.newPrev + resizer.newNext = resizer.prevStart + resizer.nextStart

(* C40 - A resizer drag preserves the combined weight of the two children  *)
(* it separates: after each pointer-move sizes[i] + sizes[i + 1] has the   *)
(* value it had at pointer-down, so that the share of every other child of *)
(* the same split is unchanged.                                            *)
C40_Sum(a, b) == Ratio(a[1] * b[2] + b[1] * a[2], a[2] * b[2])

C40_PairWeightKept ==
    [][hist'.op = "resizerMove" =>
          LET old == NodeAt(paneTree, resizer.path).sizes
              new == NodeAt(paneTree', resizer.path).sizes
              i == resizer.idx
          IN C40_Sum(new[i], new[i + 1]) = C40_Sum(old[i], old[i + 1])]_vars

====
